---------------------------- MODULE Spec2Model ----------------------------
(***************************************************************************)
(* A model of the data cleaning and profiling core of the solar-challenge  *)
(* repository: src/src/data_cleaner.py (DataCleaner) and                   *)
(* src/src/data_profiler.py (DataProfiler).                                *)
(*                                                                         *)
(* A pandas DataFrame is a record [cols, dtype, rows]: the ordered column  *)
(* names, the dtype of every column ("num" for a numeric dtype, "obj" for  *)
(* object) and the rows in order, each with its index label and cells.     *)
(* Numbers are exact rationals n/d in lowest terms, so that medians,       *)
(* means, quantiles and percentages are computed and not abstracted.       *)
(*                                                                         *)
(* The pandas calls are modelled as pandas 1.x / 2.x without copy-on-write *)
(* executes them (the code uses fillna(method='ffill'), which pandas 3     *)
(* removed): self.df[col].fillna(v, inplace=True) writes through to        *)
(* self.df. Input tables carry a unique RangeIndex, as read_csv and the    *)
(* tests build them.                                                       *)
(*                                                                         *)
(* The data loader, src/src/data_loader.py (SolarDataLoader), and the      *)
(* cleaning script, src/scripts/clean_data.py, have specifications of      *)
(* their own over the same variables: LoaderSpec for the data directory    *)
(* and the selection of a country's raw file, CsvSpec for the read         *)
(* strategies of load_csv. File and column names are sequences of          *)
(* characters.                                                             *)
(*                                                                         *)
(* ProfilerSpec calls the profiler's reports and detect_outliers_zscore on *)
(* a table, PairSpec interleaves the pipelines of two DataCleaner          *)
(* instances built from one table, and AppSpec runs clean_dataset next to  *)
(* the dashboard's loading of cleaned files, src/app/utils.py.             *)
(***************************************************************************)
EXTENDS Integers, Sequences, FiniteSets, TLC

\* ------------------------------------------------------------------ bounds

\* Largest number of rows of a caller-supplied table.
MaxRows == 2

\* Largest number of stand-alone cleaner operations called on one instance.
MaxOps == 1

\* Largest number of rows of a caller-supplied single-column table.
MaxColumnRows == 4

\* Number of times a new DataCleaner is constructed from a pipeline's result.
MaxGen == 1

\* The number of lines of a file given to load_csv.
MaxLines == 3

\* The number of rows of a cleaned file the dashboard reads.
MaxFileRows == 1

\* The number of countries in one load_countries request.
MaxRequest == 2

\* The number of load_countries calls of one run.
MaxCalls == 1

\* ------------------------------------------------------- rational numbers

Abs(x) == IF x < 0 THEN -x ELSE x

RECURSIVE Gcd(_, _)
Gcd(a, b) == IF b = 0 THEN a ELSE Gcd(b, a % b)

\* The rational n/d (d # 0) in lowest terms with a positive denominator.
Rat(n, d) ==
    LET g == Gcd(Abs(n), Abs(d))
        s == IF d < 0 THEN -1 ELSE 1
    IN  [n |-> (s * n) \div g, d |-> (s * d) \div g]

RInt(i) == [n |-> i, d |-> 1]
RAdd(a, b) == Rat(a.n * b.d + b.n * a.d, a.d * b.d)
RSub(a, b) == Rat(a.n * b.d - b.n * a.d, a.d * b.d)
RMul(a, b) == Rat(a.n * b.n, a.d * b.d)
RDiv(a, b) == Rat(a.n * b.d, a.d * b.n)
RLt(a, b) == a.n * b.d < b.n * a.d
RLe(a, b) == a.n * b.d <= b.n * a.d

\* ------------------------------------------------------------------ cells

\* A cell: a number, a missing value (NaN), a string that parses as the
\* number n/d ("numstr") or a string that does not parse ("str").
Num(n, d) == [k |-> "num"] @@ Rat(n, d)
NumR(r) == [k |-> "num", n |-> r.n, d |-> r.d]
NaN == [k |-> "nan", n |-> 0, d |-> 1]
NumStr(n) == [k |-> "numstr", n |-> n, d |-> 1]
BadStr == [k |-> "str", n |-> 0, d |-> 1]

Val(c) == [n |-> c.n, d |-> c.d]
IsNull(c) == c.k = "nan"
IsNum(c) == c.k = "num"
IsString(c) == c.k \in {"numstr", "str"}

\* ----------------------------------------------------------------- tables

Range(s) == {s[i] : i \in DOMAIN s}

RECURSIVE SelectSeq2(_, _, _)
\* The subsequence of s of the elements at the positions in keep.
SelectSeq2(s, keep, i) ==
    IF i > Len(s) THEN <<>>
    ELSE (IF i \in keep THEN <<s[i]>> ELSE <<>>) \o SelectSeq2(s, keep, i + 1)

KeepPositions(s, keep) == SelectSeq2(s, keep, 1)

HasCol(t, col) == col \in Range(t.cols)

\* The cells of column col, in row order.
Column(t, col) == [i \in DOMAIN t.rows |-> t.rows[i].c[col]]

\* self.df[col] = cells: t with the cells of column col replaced, row by row.
SetColumn(t, col, cells) ==
    [t EXCEPT !.rows = [i \in DOMAIN t.rows |-> [t.rows[i] EXCEPT !.c[col] = cells[i]]]]

\* The non-missing cells of column col as numbers, in row order.
RECURSIVE NonNullFrom(_, _, _)
NonNullFrom(t, col, i) ==
    IF i > Len(t.rows) THEN <<>>
    ELSE (IF IsNull(t.rows[i].c[col]) THEN <<>> ELSE <<Val(t.rows[i].c[col])>>)
         \o NonNullFrom(t, col, i + 1)

NonNull(t, col) == NonNullFrom(t, col, 1)

NullCount(t, col) == Cardinality({i \in DOMAIN t.rows : IsNull(t.rows[i].c[col])})

\* Whether a comparison or an arithmetic reduction over the column raises
\* TypeError: an object column that holds a str.
HasString(t, col) == \E i \in DOMAIN t.rows : IsString(t.rows[i].c[col])

RECURSIVE RSum(_)
RSum(s) == IF s = <<>> THEN RInt(0) ELSE RAdd(Head(s), RSum(Tail(s)))

RECURSIVE RSumSq(_)
RSumSq(s) == IF s = <<>> THEN RInt(0) ELSE RAdd(RMul(Head(s), Head(s)), RSumSq(Tail(s)))

RECURSIVE InsertSorted(_, _)
InsertSorted(x, s) ==
    IF s = <<>> THEN <<x>>
    ELSE IF RLe(x, Head(s)) THEN <<x>> \o s
    ELSE <<Head(s)>> \o InsertSorted(x, Tail(s))

RECURSIVE SortRat(_)
SortRat(s) == IF s = <<>> THEN <<>> ELSE InsertSorted(Head(s), SortRat(Tail(s)))

\* --------------------------------------------------------- the cleaning log

\* One entry of cleaning_log. 'details' is an f-string around a count and,
\* for the per-column steps, a column name: the entry keeps what the f-string
\* interpolates.
Entry(action, col, count) == [action |-> action, col |-> col, count |-> count]

\* The outcome of one cleaner step: the table self.df is bound to afterwards,
\* the entries log_action appended, whether the step rebound self.df to a new
\* DataFrame (the object bound before is then untouched) and whether it ended
\* by raising.
Outcome(t, entries, rebound, raised) ==
    [t |-> t, log |-> entries, rebound |-> rebound, raised |-> raised]

\* -------------------------------------------------------- remove_duplicates

\* DataFrame.drop_duplicates(keep='last'): the last occurrence of every row
\* is kept.
DropDuplicatesKeepLast(t) ==
    [t EXCEPT !.rows = KeepPositions(t.rows,
        {i \in DOMAIN t.rows : \A j \in (i + 1)..Len(t.rows) : t.rows[j].c # t.rows[i].c})]

\* DataFrame.drop_duplicates(): the first occurrence of every row is kept,
\* in order and under its own label; missing values compare equal.
DropDuplicates(t) ==
    [t EXCEPT !.rows = KeepPositions(t.rows,
        {i \in DOMAIN t.rows : \A j \in 1..(i - 1) : t.rows[j].c # t.rows[i].c})]

\* remove_duplicates with 'if removed >= 0': it logs every call.
remove_duplicates_logging_zero(t) ==
    LET new == DropDuplicates(t)
    IN  Outcome(new, <<Entry("Removed duplicates", "", Len(t.rows) - Len(new.rows))>>,
                TRUE, FALSE)

remove_duplicates(t) ==
    LET new == DropDuplicates(t)
        removed == Len(t.rows) - Len(new.rows)
    IN  Outcome(new,
                IF removed > 0 THEN <<Entry("Removed duplicates", "", removed)>> ELSE <<>>,
                TRUE, FALSE)

\* --------------------------------------------------- coerce_numeric_columns

CoerceCols ==
    <<"GHI", "DNI", "DHI", "ModA", "ModB", "Tamb", "RH", "WS", "WSgust",
      "WSstdev", "WD", "WDstdev", "BP", "Cleaning", "Precipitation",
      "TModA", "TModB">>

\* pd.to_numeric(errors='coerce') on one cell.
ToNumeric(c) ==
    CASE c.k = "num" -> c
      [] c.k = "nan" -> c
      [] c.k = "numstr" -> Num(c.n, c.d)
      [] OTHER -> NaN

CoerceColumn(t, col) ==
    [SetColumn(t, col, [i \in DOMAIN t.rows |-> ToNumeric(Column(t, col)[i])])
        EXCEPT !.dtype[col] = "num"]

RECURSIVE CoerceFrom(_, _)
CoerceFrom(t, cols) ==
    IF cols = <<>> THEN t
    ELSE CoerceFrom(IF HasCol(t, Head(cols)) THEN CoerceColumn(t, Head(cols)) ELSE t,
                    Tail(cols))

coerce_numeric_columns(t) == Outcome(CoerceFrom(t, CoerceCols), <<>>, FALSE, FALSE)

\* ---------------------------------------------------- handle_missing_values

\* DataFrame.drop(columns=drop).
DropColumns(t, drop) ==
    [cols  |-> SelectSeq(t.cols, LAMBDA x : x \notin drop),
     dtype |-> [x \in (DOMAIN t.dtype) \ drop |-> t.dtype[x]],
     rows  |-> [i \in DOMAIN t.rows |->
                  [lab |-> t.rows[i].lab,
                   c   |-> [x \in (DOMAIN t.rows[i].c) \ drop |-> t.rows[i].c[x]]]]]

\* Series.median() and Series.mean(): over the non-missing values, NaN when
\* there is none.
Median(s) ==
    LET v == SortRat(s)
        n == Len(v)
    IN  IF n = 0 THEN NaN
        ELSE IF n % 2 = 1 THEN NumR(v[(n + 1) \div 2])
        ELSE NumR(RDiv(RAdd(v[n \div 2], v[n \div 2 + 1]), RInt(2)))

Mean(s) == IF s = <<>> THEN NaN ELSE NumR(RDiv(RSum(s), RInt(Len(s))))

\* A fill that overwrites every cell of the column.
FillNaAll(t, col, v) == SetColumn(t, col, [i \in DOMAIN t.rows |-> v])

\* Series.fillna(v, inplace=True).
FillNa(t, col, v) ==
    SetColumn(t, col, [i \in DOMAIN t.rows |->
        LET c == Column(t, col)[i] IN IF IsNull(c) THEN v ELSE c])

\* The loop 'for col in numeric_cols: if isnull().any(): fillna(statistic)'.
RECURSIVE FillNumeric(_, _, _)
FillNumeric(t, cols, strategy) ==
    IF cols = <<>> THEN t
    ELSE LET col == Head(cols)
             stat == IF strategy = "median" THEN Median(NonNull(t, col))
                     ELSE Mean(NonNull(t, col))
         IN  FillNumeric(IF t.dtype[col] = "num" /\ NullCount(t, col) > 0
                            THEN FillNa(t, col, stat) ELSE t,
                         Tail(cols), strategy)

\* The value fillna(method='ffill') leaves in row i of a column: the last
\* non-missing value at or before row i, missing when there is none.
RECURSIVE LastValid(_, _, _)
LastValid(t, col, i) ==
    IF i = 0 THEN NaN
    ELSE IF ~IsNull(t.rows[i].c[col]) THEN t.rows[i].c[col]
    ELSE LastValid(t, col, i - 1)

ForwardFill(t) ==
    [t EXCEPT !.rows = [i \in DOMAIN t.rows |->
        [t.rows[i] EXCEPT !.c = [x \in DOMAIN t.rows[i].c |-> LastValid(t, x, i)]]]]

\* DataFrame.dropna(how='all'): only the rows with every cell missing go.
DropNaAll(t) ==
    [t EXCEPT !.rows = KeepPositions(t.rows,
        {i \in DOMAIN t.rows : \E x \in DOMAIN t.rows[i].c : ~IsNull(t.rows[i].c[x])})]

\* DataFrame.dropna().
DropNa(t) ==
    [t EXCEPT !.rows = KeepPositions(t.rows,
        {i \in DOMAIN t.rows : \A x \in DOMAIN t.rows[i].c : ~IsNull(t.rows[i].c[x])})]

\* The columns whose missing ratio isnull().sum() / len(df) exceeds the
\* threshold; with no rows the ratio is 0/0 = NaN, which exceeds nothing.
ColsToDrop(t, threshold) ==
    {x \in Range(t.cols) :
        /\ Len(t.rows) > 0
        /\ NullCount(t, x) * threshold.d > threshold.n * Len(t.rows)}

\* handle_missing_values applying the strategy before it drops the columns.
handle_missing_values_strategy_first(t, strategy, threshold) ==
    LET t1 == CASE strategy \in {"median", "mean"} -> FillNumeric(t, t.cols, strategy)
                [] strategy = "forward_fill" -> ForwardFill(t)
                [] strategy = "drop" -> DropNa(t)
                [] OTHER -> t
        rowlog == IF strategy = "drop"
                  THEN <<Entry("Dropped rows", "", Len(t.rows) - Len(t1.rows))>> ELSE <<>>
        drop == ColsToDrop(t1, threshold)
    IN  IF drop # {}
        THEN Outcome(DropColumns(t1, drop),
                     rowlog \o <<Entry("Dropped columns", "", Cardinality(drop))>>, TRUE, FALSE)
        ELSE Outcome(t1, rowlog, strategy = "drop", FALSE)

\* handle_missing_values with a final 'else' that fills with the median.
handle_missing_values_median_fallback(t, strategy, threshold) ==
    LET drop == ColsToDrop(t, threshold)
        t1 == IF drop # {} THEN DropColumns(t, drop) ELSE t
        log1 == IF drop # {}
                THEN <<Entry("Dropped columns", "", Cardinality(drop))>> ELSE <<>>
    IN  CASE strategy = "mean" ->
               Outcome(FillNumeric(t1, t1.cols, strategy), log1, drop # {}, FALSE)
          [] strategy = "forward_fill" ->
               Outcome(ForwardFill(t1), log1, drop # {}, FALSE)
          [] strategy = "drop" ->
               LET t2 == DropNa(t1)
               IN  Outcome(t2,
                           log1 \o <<Entry("Dropped rows", "", Len(t1.rows) - Len(t2.rows))>>,
                           TRUE, FALSE)
          [] OTHER -> Outcome(FillNumeric(t1, t1.cols, "median"), log1, drop # {}, FALSE)

handle_missing_values(t, strategy, threshold) ==
    LET drop == ColsToDrop(t, threshold)
        t1 == IF drop # {} THEN DropColumns(t, drop) ELSE t
        log1 == IF drop # {}
                THEN <<Entry("Dropped columns", "", Cardinality(drop))>> ELSE <<>>
    IN  CASE strategy \in {"median", "mean"} ->
               Outcome(FillNumeric(t1, t1.cols, strategy), log1, drop # {}, FALSE)
          [] strategy = "forward_fill" ->
               Outcome(ForwardFill(t1), log1, drop # {}, FALSE)
          [] strategy = "drop" ->
               LET t2 == DropNa(t1)
               IN  Outcome(t2,
                           log1 \o <<Entry("Dropped rows", "", Len(t1.rows) - Len(t2.rows))>>,
                           TRUE, FALSE)
          [] OTHER -> Outcome(t1, log1, drop # {}, FALSE)

\* ------------------------------------------------ validate_irradiance_values

\* irradiance_cols with a temperature column among them.
IrradianceColsAndTamb == <<"GHI", "DNI", "DHI", "ModA", "ModB", "Tamb">>

IrradianceCols == <<"GHI", "DNI", "DHI", "ModA", "ModB">>

IsNegative(c) == IsNum(c) /\ c.n < 0

NegativeCount(t, col) == Cardinality({i \in DOMAIN t.rows : IsNegative(t.rows[i].c[col])})

\* Series.clip(upper=0): the wrong bound.
ClipUpperZero(t, col) ==
    SetColumn(t, col, [i \in DOMAIN t.rows |->
        LET c == Column(t, col)[i] IN IF IsNum(c) /\ c.n > 0 THEN Num(0, 1) ELSE c])

\* The rows with a negative value removed in place of the clip.
DropNegativeRows(t, col) ==
    [t EXCEPT !.rows = KeepPositions(t.rows,
        {i \in DOMAIN t.rows : ~IsNegative(t.rows[i].c[col])})]

\* Series.clip(lower=0).
ClipLowerZero(t, col) ==
    SetColumn(t, col, [i \in DOMAIN t.rows |->
        LET c == Column(t, col)[i] IN IF IsNegative(c) THEN Num(0, 1) ELSE c])

\* The loop over irradiance_cols, from the outcome o of the columns before.
\* (self.df[col] < 0) raises TypeError on a column that holds a str, and the
\* columns clipped before it stay clipped.
RECURSIVE ValidateFrom(_, _)
ValidateFrom(o, cols) ==
    IF cols = <<>> \/ o.raised THEN o
    ELSE LET col == Head(cols)
         IN  IF ~HasCol(o.t, col) THEN ValidateFrom(o, Tail(cols))
             ELSE IF HasString(o.t, col) THEN Outcome(o.t, o.log, FALSE, TRUE)
             ELSE IF NegativeCount(o.t, col) > 0
                  THEN ValidateFrom(
                          Outcome(ClipLowerZero(o.t, col),
                                  o.log \o <<Entry("Fixed negative values", col,
                                                   NegativeCount(o.t, col))>>,
                                  FALSE, FALSE),
                          Tail(cols))
             ELSE ValidateFrom(o, Tail(cols))

validate_irradiance_values(t) == ValidateFrom(Outcome(t, <<>>, FALSE, FALSE), IrradianceCols)

\* ---------------------------------------------------- remove_outliers_zscore

\* np.abs(stats.zscore(x))[i] <= threshold for the value x of a column whose
\* non-missing values are s, with the population standard deviation
\* (ddof = 0): |x - mean| / std <= threshold, squared and cleared of
\* denominators. A constant column has std = 0 and Z-scores NaN, and
\* NaN <= threshold is False.
ZKeeps(s, x, threshold) ==
    LET n == RInt(Len(s))
        sum == RSum(s)
        var == RSub(RMul(n, RSumSq(s)), RMul(sum, sum))
        dev == RSub(RMul(n, x), sum)
    IN  /\ RLt(RInt(0), var)
        /\ RLe(RMul(dev, dev), RMul(RMul(threshold, threshold), var))

\* self.df.loc[self.df.index.isin(valid_indices)] for one column: the rows
\* whose value is present and within the threshold.
ZFilter(t, col, threshold) ==
    [t EXCEPT !.rows = KeepPositions(t.rows,
        {i \in DOMAIN t.rows :
            /\ ~IsNull(t.rows[i].c[col])
            /\ ZKeeps(NonNull(t, col), Val(t.rows[i].c[col]), threshold)})]

\* The loop over columns, from the outcome o of the columns before.
\* stats.zscore raises TypeError on a column that holds a str; the rows
\* removed for the columns before stay removed and nothing is logged.
RECURSIVE ZscoreFrom(_, _, _)
ZscoreFrom(o, cols, threshold) ==
    IF cols = <<>> \/ o.raised THEN o
    ELSE LET col == Head(cols)
         IN  IF ~HasCol(o.t, col) THEN ZscoreFrom(o, Tail(cols), threshold)
             ELSE IF HasString(o.t, col) THEN Outcome(o.t, <<>>, o.rebound, TRUE)
             ELSE ZscoreFrom(Outcome(ZFilter(o.t, col, threshold), <<>>, TRUE, FALSE),
                             Tail(cols), threshold)

\* remove_outliers_zscore without its log_action call.
remove_outliers_zscore_unlogged(t, columns, threshold) ==
    ZscoreFrom(Outcome(t, <<>>, FALSE, FALSE), columns, threshold)

remove_outliers_zscore(t, columns, threshold) ==
    LET o == ZscoreFrom(Outcome(t, <<>>, FALSE, FALSE), columns, threshold)
        removed == Len(t.rows) - Len(o.t.rows)
    IN  IF ~o.raised /\ removed > 0
        THEN Outcome(o.t, <<Entry("Removed outliers", "", removed)>>, o.rebound, FALSE)
        ELSE o

\* ---------------------------------------------------------- cap_outliers_iqr

\* Series.quantile(p, interpolation='lower'): the value at the position
\* below.
QuantileLower(v, p) == v[((Len(v) - 1) * p.n) \div p.d + 1]

\* Series.quantile(p) with linear interpolation over the sorted non-missing
\* values v (not empty): position (n - 1) * p, counted from 0.
Quantile(v, p) ==
    LET k == (Len(v) - 1) * p.n
        lo == k \div p.d
        frac == Rat(k % p.d, p.d)
    IN  IF frac.n = 0 THEN v[lo + 1]
        ELSE RAdd(v[lo + 1], RMul(frac, RSub(v[lo + 2], v[lo + 1])))

\* The Tukey fences [Q1 - 1.5 * IQR, Q3 + 1.5 * IQR] of the values s.
Fences(s) ==
    LET v == SortRat(s)
        Q1 == Quantile(v, Rat(1, 4))
        Q3 == Quantile(v, Rat(3, 4))
        IQR == RSub(Q3, Q1)
    IN  [lower |-> RSub(Q1, RMul(Rat(3, 2), IQR)),
         upper |-> RAdd(Q3, RMul(Rat(3, 2), IQR))]

\* One column of cap_outliers_iqr. With no non-missing value the quantiles
\* are NaN: nothing compares outside them and clip leaves the column alone.
CapColumn(t, col) ==
    IF NonNull(t, col) = <<>> THEN [t |-> t, count |-> 0]
    ELSE LET f == Fences(NonNull(t, col))
             Out(c) == IsNum(c) /\ (RLt(Val(c), f.lower) \/ RLt(f.upper, Val(c)))
             Clip(c) == IF ~IsNum(c) THEN c
                        ELSE IF RLt(Val(c), f.lower) THEN NumR(f.lower)
                        ELSE IF RLt(f.upper, Val(c)) THEN NumR(f.upper)
                        ELSE c
         IN  [t |-> SetColumn(t, col, [i \in DOMAIN t.rows |-> Clip(Column(t, col)[i])]),
              count |-> Cardinality({i \in DOMAIN t.rows : Out(t.rows[i].c[col])})]

\* The loop over columns; Series.quantile raises TypeError on a column that
\* holds a str.
RECURSIVE CapFrom(_, _)
CapFrom(o, cols) ==
    IF cols = <<>> \/ o.raised THEN o
    ELSE LET col == Head(cols)
         IN  IF ~HasCol(o.t, col) THEN CapFrom(o, Tail(cols))
             ELSE IF HasString(o.t, col) THEN Outcome(o.t, o.log, FALSE, TRUE)
             ELSE LET r == CapColumn(o.t, col)
                  IN  CapFrom(Outcome(r.t,
                                      IF r.count > 0
                                      THEN o.log \o <<Entry("Capped outliers", col, r.count)>>
                                      ELSE o.log,
                                      FALSE, FALSE),
                              Tail(cols))

cap_outliers_iqr(t, columns) == CapFrom(Outcome(t, <<>>, FALSE, FALSE), columns)

\* ------------------------------------------------------ get_cleaning_report

\* pd.DataFrame(self.cleaning_log): a new table with one row per dict of the
\* list and the dicts' keys as columns; an empty list has no dict to take
\* keys from and gives a table with no columns.
get_cleaning_report(entries) ==
    [cols |-> IF entries = <<>> THEN <<>> ELSE <<"action", "details">>,
     rows |-> entries]

\* ---------------------------------------------- DataProfiler.data_quality_score

Percent(part, whole) == Rat(100 * part, whole)

RECURSIVE NegativeIrradiance(_, _)
NegativeIrradiance(t, cols) ==
    IF cols = <<>> THEN 0
    ELSE (IF HasCol(t, Head(cols)) THEN NegativeCount(t, Head(cols)) ELSE 0)
         + NegativeIrradiance(t, Tail(cols))

DuplicatedCount(t) == Len(t.rows) - Len(DropDuplicates(t).rows)

\* The four scores; "raised" when (self.df[col] < 0) meets a str, "undefined"
\* for a table with no rows (a division by zero).
data_quality_score(t) ==
    LET rows == Len(t.rows)
        total_cells == rows * Len(t.cols)
        missing_cells == Cardinality({<<i, x>> \in (DOMAIN t.rows) \X Range(t.cols) :
                                          IsNull(t.rows[i].c[x])})
        completeness == Percent(total_cells - missing_cells, total_cells)
        validity == RSub(RInt(100), Percent(NegativeIrradiance(t, IrradianceCols), rows))
        uniqueness == Percent(rows - DuplicatedCount(t), rows)
    IN  IF \E i \in DOMAIN IrradianceCols :
              HasCol(t, IrradianceCols[i]) /\ HasString(t, IrradianceCols[i])
        THEN [status |-> "raised"]
        ELSE IF total_cells = 0 THEN [status |-> "undefined"]
        ELSE [status |-> "ok",
              completeness |-> completeness,
              validity |-> validity,
              uniqueness |-> uniqueness,
              overall_quality |-> RAdd(RAdd(RMul(completeness, Rat(4, 10)),
                                            RMul(validity, Rat(4, 10))),
                                       RMul(uniqueness, Rat(2, 10)))]

\* -------------------------------------------- DataProfiler.missing_value_report

\* The rows of the report before the filter and the sort: one per column, in
\* column order, with isnull().sum() and its percentage of len(df). With no
\* row the percentage is 0/0, which the filter on the count never lets
\* through; it is written 0.
MissingRows(t) ==
    [i \in DOMAIN t.cols |->
        [column |-> t.cols[i],
         missing_count |-> NullCount(t, t.cols[i]),
         missing_percent |-> IF Len(t.rows) = 0 THEN RInt(0)
                             ELSE Percent(NullCount(t, t.cols[i]), Len(t.rows)),
         dtype |-> t.dtype[t.cols[i]]]]

\* The report without the filter on missing_count.
WithMissingOrNot(rows) == rows

\* report[report['missing_count'] > 0]
WithMissing(rows) ==
    KeepPositions(rows, {i \in DOMAIN rows : rows[i].missing_count > 0})

\* sort_values('missing_percent', ascending=False): every order of the rows
\* that descends in missing_percent. The default sort is quicksort, which
\* promises no order among rows of equal percentage.
SortValuesDescending(rows) ==
    {[i \in DOMAIN rows |-> rows[p[i]]] : p \in
        {q \in Permutations(DOMAIN rows) :
            \A i, j \in DOMAIN rows :
                i < j => RLe(rows[q[j]].missing_percent, rows[q[i]].missing_percent)}}

\* The reports missing_value_report may return for the table t.
missing_value_report(t) == SortValuesDescending(WithMissing(MissingRows(t)))

\* ------------------------------------------ DataProfiler.detect_outliers_zscore

\* np.abs(stats.zscore(x))[i] > threshold for the value x of a column whose
\* non-missing values are s: |x - mean| / std > threshold with the
\* population standard deviation, squared and cleared of denominators. The
\* Z-scores of a constant column are NaN, and NaN > threshold is False.
ZAbove(s, x, threshold) ==
    LET n == RInt(Len(s))
        sum == RSum(s)
        var == RSub(RMul(n, RSumSq(s)), RMul(sum, sum))
        dev == RSub(RMul(n, x), sum)
    IN  /\ RLt(RInt(0), var)
        /\ RLt(RMul(RMul(threshold, threshold), var), RMul(dev, dev))

\* The rows counted by a percentage over the values present.
PresentCount(t, col) == Len(NonNull(t, col))

\* len(self.df)
RowCount(t, col) == Len(t.rows)

\* outliers[col] for one column: the count of the mask, its share of all
\* rows in percent and the labels under the mask, in row order.
DetectColumn(t, col, threshold) ==
    LET mask == {i \in DOMAIN t.rows :
                    /\ ~IsNull(t.rows[i].c[col])
                    /\ ZAbove(NonNull(t, col), Val(t.rows[i].c[col]), threshold)}
        hits == KeepPositions(t.rows, mask)
    IN  [column |-> col,
         count |-> Cardinality(mask),
         percentage |-> IF mask = {} THEN RInt(0)
                        ELSE Percent(Cardinality(mask), RowCount(t, col)),
         indices |-> [k \in DOMAIN hits |-> hits[k].lab]]

\* The loop over columns, from the entries of the columns before;
\* stats.zscore raises TypeError on a column that holds a str.
RECURSIVE DetectFrom(_, _, _, _)
DetectFrom(t, entries, cols, threshold) ==
    IF cols = <<>> THEN [status |-> "ok", entries |-> entries]
    ELSE LET col == Head(cols)
         IN  IF ~HasCol(t, col) THEN DetectFrom(t, entries, Tail(cols), threshold)
             ELSE IF HasString(t, col) THEN [status |-> "TypeError", entries |-> <<>>]
             ELSE LET e == DetectColumn(t, col, threshold)
                  IN  DetectFrom(t, IF e.count > 0 THEN Append(entries, e) ELSE entries,
                                 Tail(cols), threshold)

\* columns=None: the fixed list, of it the numeric columns of the table.
DefaultDetectColumns(t) ==
    SelectSeq(<<"GHI", "DNI", "DHI", "ModA", "ModB", "WS", "WSgust">>,
              LAMBDA col : HasCol(t, col) /\ t.dtype[col] = "num")

detect_outliers_zscore(t, columns, threshold) ==
    DetectFrom(t, <<>>, columns, threshold)
        @@ [columns |-> columns, threshold |-> threshold]

\* ------------------------------------------------------------------ strings
\* A Python str is the sequence of its characters, each a string of length 1.

UpperCase ==
    <<"A", "B", "C", "D", "E", "F", "G", "H", "I", "J", "K", "L", "M",
      "N", "O", "P", "Q", "R", "S", "T", "U", "V", "W", "X", "Y", "Z">>

LowerCase ==
    <<"a", "b", "c", "d", "e", "f", "g", "h", "i", "j", "k", "l", "m",
      "n", "o", "p", "q", "r", "s", "t", "u", "v", "w", "x", "y", "z">>

Digits == <<"0", "1", "2", "3", "4", "5", "6", "7", "8", "9">>

\* The characters of the file and country names in the order of their code
\* points, which is the order str comparison goes by.
CodePoints == <<" ", "-", ".">> \o Digits \o UpperCase \o <<"_">> \o LowerCase

Ord(ch) == CHOOSE i \in DOMAIN CodePoints : CodePoints[i] = ch

\* The no-break space, U+00A0, is white space to str.strip().
Whitespace == {" ", "NBSP"}

\* str.lower()
LowerChar(ch) ==
    IF \E i \in DOMAIN UpperCase : UpperCase[i] = ch
    THEN LowerCase[CHOOSE i \in DOMAIN UpperCase : UpperCase[i] = ch]
    ELSE ch

Lower(s) == [i \in DOMAIN s |-> LowerChar(s[i])]

\* str.isalnum() on one character
IsAlnum(ch) == ch \in Range(UpperCase) \cup Range(LowerCase) \cup Range(Digits)

\* str.endswith(suffix) and 'sub in s'
EndsWith(s, suffix) ==
    /\ Len(s) >= Len(suffix)
    /\ SubSeq(s, Len(s) - Len(suffix) + 1, Len(s)) = suffix

Contains(s, sub) ==
    \E i \in 0..(Len(s) - Len(sub)) : SubSeq(s, i + 1, i + Len(sub)) = sub

\* str.replace(old, new) for single characters
Replace(s, old, new) == [i \in DOMAIN s |-> IF s[i] = old THEN new ELSE s[i]]

\* str.strip()
RECURSIVE StripLeft(_)
StripLeft(s) ==
    IF s # <<>> /\ Head(s) \in Whitespace THEN StripLeft(Tail(s)) ELSE s

RECURSIVE StripRight(_)
StripRight(s) ==
    IF s # <<>> /\ s[Len(s)] \in Whitespace THEN StripRight(SubSeq(s, 1, Len(s) - 1)) ELSE s

Strip(s) == StripRight(StripLeft(s))

\* a < b for two str
RECURSIVE StrLess(_, _)
StrLess(a, b) ==
    IF b = <<>> THEN FALSE
    ELSE IF a = <<>> THEN TRUE
    ELSE IF Head(a) = Head(b) THEN StrLess(Tail(a), Tail(b))
    ELSE Ord(Head(a)) < Ord(Head(b))

\* ------------------------------------------- SolarDataLoader.load_country_data

CsvSuffix == <<".", "c", "s", "v">>
CleanMarker == <<"c", "l", "e", "a", "n">>

\* norm = lambda s: ''.join(ch for ch in s.lower() if ch.isalnum())
norm(s) == SelectSeq(Lower(s), IsAlnum)

\* The loop over os.listdir: the names that end in '.csv', do not contain
\* 'clean' and contain the target, in the order of the listing.
Candidates(listing, target) ==
    SelectSeq(listing, LAMBDA fname :
        /\ EndsWith(Lower(fname), CsvSuffix)
        /\ ~Contains(Lower(fname), CleanMarker)
        /\ Contains(norm(Lower(fname)), target))

\* The candidates left in the order of the listing.
Unsorted(names) == names

\* candidates.sort()
RECURSIVE InsertName(_, _)
InsertName(x, s) ==
    IF s = <<>> THEN <<x>>
    ELSE IF StrLess(Head(s), x) THEN <<Head(s)>> \o InsertName(x, Tail(s))
    ELSE <<x>> \o s

RECURSIVE SortFrom(_)
SortFrom(names) ==
    IF names = <<>> THEN <<>> ELSE InsertName(Head(names), SortFrom(Tail(names)))

SortNames(names) == SortFrom(names)

\* What a load returns to its caller: the file whose table it is, or the
\* error raised.
Loaded(filename) == [status |-> "loaded", file |-> filename]
FileNotFoundError == [status |-> "FileNotFoundError", file |-> <<>>]

\* load_csv as load_country_data sees it: the file is looked up in the data
\* directory and its table returned. How the file is parsed is the matter of
\* the read strategies below.
load_csv_of(listing, filename) ==
    IF filename \notin Range(listing) THEN FileNotFoundError ELSE Loaded(filename)

load_country_data(listing, country) ==
    LET target == norm(country)
        candidates == Candidates(listing, target)
    IN  IF candidates = <<>> THEN FileNotFoundError
        ELSE load_csv_of(listing, SortNames(candidates)[1])

\* --------------------------------------------------------------- clean_dataset

\* slug = country.strip().lower().replace(' ', '_').replace('-', '_')
slug(country) == Replace(Replace(Lower(Strip(country)), " ", "_"), "-", "_")

\* An output name without the marker: f'{slug}_out.csv'.
OutFileName(country) == slug(country) \o <<"_", "o", "u", "t">> \o CsvSuffix

\* f'{slug}_clean.csv'
CleanFileName(country) == slug(country) \o <<"_">> \o CleanMarker \o CsvSuffix

\* ------------------------------------------------------ SolarDataLoader.load_csv

\* for skip in (None, [1]): for enc in ('utf-8', 'latin-1')
ReadStrategies ==
    <<[skip |-> FALSE, enc |-> "utf-8"], [skip |-> FALSE, enc |-> "latin-1"],
      [skip |-> TRUE, enc |-> "utf-8"], [skip |-> TRUE, enc |-> "latin-1"]>>

TimestampName == <<"T", "i", "m", "e", "s", "t", "a", "m", "p">>
GhiName == <<"G", "H", "I">>

\* A line of a file: whether it is blank, whether its bytes are valid UTF-8,
\* and its fields as Latin-1 reads them (and as UTF-8 does, when valid).
Line(blank, utf8, cells) == [blank |-> blank, utf8 |-> utf8, cells |-> cells]

BlankLine == Line(TRUE, TRUE, <<>>)
\* 'Timestamp,GHI'
HeaderLine == Line(FALSE, TRUE, <<TimestampName, GhiName>>)
\* ' timestamp ,GHI'
PaddedHeaderLine == Line(FALSE, TRUE, <<<<" ">> \o Lower(TimestampName) \o <<" ">>, GhiName>>)
\* b'\xa0Timestamp,GHI': a no-break space in Latin-1, no valid UTF-8
NbspHeaderLine == Line(FALSE, FALSE, <<<<"NBSP">> \o TimestampName, GhiName>>)
\* 'Date,Value'
LabelsLine == Line(FALSE, TRUE, <<<<"D", "a", "t", "e">>, <<"V", "a", "l", "u", "e">>>>)
\* 'yyyy-mm-dd,W/m2' with the superscript two of Latin-1, no valid UTF-8
UnitsLine == Line(FALSE, FALSE, <<<<"y", "y", "y", "y">>, <<"W", "/", "m", "SUP2">>>>)
\* '2021,1'
DataLine == Line(FALSE, TRUE, <<<<"2", "0", "2", "1">>, <<"1">>>>)
\* '2021,1,7': one field more than the lines above
WideLine == Line(FALSE, TRUE, <<<<"2", "0", "2", "1">>, <<"1">>, <<"7">>>>)

LineKinds ==
    {BlankLine, HeaderLine, PaddedHeaderLine, NbspHeaderLine, LabelsLine, UnitsLine,
     DataLine, WideLine}

\* What pd.read_csv returns or raises.
Parsed(columns, rows) == [ok |-> TRUE, error |-> "", columns |-> columns, rows |-> rows]
ReadError(error) == [ok |-> FALSE, error |-> error, columns |-> <<>>, rows |-> 0]

\* pd.read_csv(filepath, encoding=enc, skiprows=skip) on the lines of a file.
\* The file is decoded as it is read, so one byte that is no UTF-8 fails the
\* UTF-8 strategies wherever it stands. skiprows=[1] skips the second line of
\* the file, blank lines are skipped, the first line left is the header.
\* The first data line may be wider than the header (its first fields become
\* the index); a later line with more fields than the lines before is a
\* ParserError, one with fewer is padded.
read_csv(content, strategy) ==
    LET lines == KeepPositions(content,
                     {i \in DOMAIN content : ~content[i].blank /\ ~(strategy.skip /\ i = 2)})
        width == IF Len(lines) >= 2 /\ Len(lines[2].cells) > Len(lines[1].cells)
                 THEN Len(lines[2].cells) ELSE Len(lines[1].cells)
    IN  IF strategy.enc = "utf-8" /\ \E i \in DOMAIN content : ~content[i].utf8
        THEN ReadError("UnicodeDecodeError")
        ELSE IF lines = <<>> THEN ReadError("EmptyDataError")
        ELSE IF \E i \in 3..Len(lines) : Len(lines[i].cells) > width
        THEN ReadError("ParserError")
        ELSE Parsed(lines[1].cells, Len(lines) - 1)

\* col.strip().lower() == 'timestamp'
IsTimestampName(col) == Lower(Strip(col)) = Lower(TimestampName)

\* The columns after the timestamp column, the first with such a name, was
\* converted and renamed 'Timestamp'; as they were when there is none.
RenameTimestamp(columns) ==
    IF \E i \in DOMAIN columns : IsTimestampName(columns[i])
    THEN LET ts == CHOOSE i \in DOMAIN columns :
                       /\ IsTimestampName(columns[i])
                       /\ \A j \in 1..(i - 1) : ~IsTimestampName(columns[j])
         IN  [columns EXCEPT ![ts] = TimestampName]
    ELSE columns

\* ------------------------------------------------------------ input tables

\* A schema: the columns of a table, their dtypes and the cells each may hold.
\* Two irradiance columns, numeric.
IrradianceSchema ==
    [cols  |-> <<"GHI", "DNI">>,
     dtype |-> [x \in {"GHI", "DNI"} |-> "num"],
     dom   |-> [x \in {"GHI", "DNI"} |->
                  IF x = "GHI" THEN {NaN, Num(-1, 1), Num(1, 1)}
                  ELSE {Num(-1, 1), Num(1, 1)}]]

\* A raw file whose GHI column was read as text (a units row, a bad token).
RawSchema ==
    [cols  |-> <<"GHI", "Tamb">>,
     dtype |-> [x \in {"GHI", "Tamb"} |-> IF x = "GHI" THEN "obj" ELSE "num"],
     dom   |-> [x \in {"GHI", "Tamb"} |->
                  IF x = "GHI" THEN {BadStr, NumStr(-1)} ELSE {NaN, Num(-1, 1)}]]

\* A table with a free-text column the cleaner does not know.
CommentsSchema ==
    [cols  |-> <<"Comments", "GHI">>,
     dtype |-> [x \in {"Comments", "GHI"} |-> IF x = "GHI" THEN "num" ELSE "obj"],
     dom   |-> [x \in {"Comments", "GHI"} |->
                  IF x = "GHI" THEN {NaN, Num(1, 1)} ELSE {NaN, BadStr}]]

\* An irradiance column and a temperature column, numeric: a temperature may
\* be negative.
WeatherSchema ==
    [cols  |-> <<"GHI", "Tamb">>,
     dtype |-> [x \in {"GHI", "Tamb"} |-> "num"],
     dom   |-> [x \in {"GHI", "Tamb"} |->
                  IF x = "GHI" THEN {Num(-1, 1), Num(1, 1)} ELSE {NaN, Num(-1, 1)}]]

\* One numeric column, long enough for a value to lie outside the Tukey
\* fences of the others and for its median to differ from its mean.
ColumnSchema ==
    [cols  |-> <<"GHI">>,
     dtype |-> [x \in {"GHI"} |-> "num"],
     dom   |-> [x \in {"GHI"} |-> {NaN, Num(0, 1), Num(1, 1)}]]

Schemas == {IrradianceSchema, RawSchema, CommentsSchema, WeatherSchema}

RowsOf(sch) ==
    {f \in [Range(sch.cols) -> UNION {sch.dom[x] : x \in Range(sch.cols)}] :
        \A x \in Range(sch.cols) : f[x] \in sch.dom[x]}

\* The tables of a schema with at most max rows under a RangeIndex.
TablesOf(sch, max) ==
    UNION {{[cols  |-> sch.cols,
             dtype |-> sch.dtype,
             rows  |-> [i \in 1..n |-> [lab |-> i - 1, c |-> r[i]]]] :
               r \in [1..n -> RowsOf(sch)]} : n \in 0..max}

InputTables ==
    UNION {TablesOf(sch, MaxRows) : sch \in Schemas} \cup TablesOf(ColumnSchema, MaxColumnRows)

\* The data directory: raw files 'benin.csv', 'Benin-2.CSV', 'togo_raw.csv',
\* a file that is no CSV, 'benin.txt', and a raw file that has the marker in
\* its name, 'BeninClean.csv'.
BeninCsv == <<"b", "e", "n", "i", "n">> \o CsvSuffix
Benin2Csv == <<"B", "e", "n", "i", "n", "-", "2", ".", "C", "S", "V">>
TogoRawCsv == <<"t", "o", "g", "o", "_", "r", "a", "w">> \o CsvSuffix
BeninTxt == <<"b", "e", "n", "i", "n", ".", "t", "x", "t">>
BeninCleanCsv == <<"B", "e", "n", "i", "n", "C", "l", "e", "a", "n">> \o CsvSuffix

RawNames == {BeninCsv, Benin2Csv, TogoRawCsv, BeninTxt, BeninCleanCsv}

\* The country names asked for: 'benin', 'Togo' and ' to-go'.
Countries ==
    {<<"b", "e", "n", "i", "n">>, <<"T", "o", "g", "o">>, <<" ", "t", "o", "-", "g", "o">>}

RECURSIVE SetToSeq(_)
SetToSeq(S) ==
    IF S = {} THEN <<>>
    ELSE LET x == CHOOSE y \in S : TRUE IN <<x>> \o SetToSeq(S \ {x})

\* os.listdir returns the names in arbitrary order: here in ascending and
\* in descending order.
Listings(names) ==
    LET Ascending == SortFrom(SetToSeq(names))
    IN  {Ascending, [i \in DOMAIN Ascending |-> Ascending[Len(Ascending) + 1 - i]]}

\* The files load_csv is given: up to MaxLines lines each.
Contents == UNION {[1..n -> LineKinds] : n \in 0..MaxLines}

\* The arguments the stand-alone steps are called with.
Strategies == {"median", "mean", "forward_fill", "drop", "interpolate"}
DefaultThreshold == Rat(1, 2)
Thresholds == {DefaultThreshold, Rat(0, 1)}
ZThresholds == {Rat(3, 1), Rat(5, 4)}
ZColumnLists == {<<"GHI">>, <<"DNI", "GHI">>, <<"GHI", "Comments">>}
CapColumnLists == {<<"GHI">>, <<"DNI", "GHI">>}
DetectColumnLists == {<<"GHI">>, <<"Tamb", "GHI">>, <<"DNI", "WS">>}
PipelineOutlierCols == <<"GHI", "DNI", "DHI", "ModA", "ModB", "WS", "WSgust">>
PipelineZThreshold == Rat(3, 1)

\* ------------------------------------------------------------------- state

VARIABLES
    orig,      \* the caller's DataFrame, the argument of DataCleaner(df)
    input0,    \* history: the caller's DataFrame as it was at construction
    df,        \* the DataFrame the cleaner made for itself
    dfRef,     \* what self.df is bound to: "own" (df) or "caller" (orig)
    log,       \* self.cleaning_log
    pc,        \* where clean_pipeline stands: "idle" before it, "done" after
    flag,      \* the remove_outliers argument of the running clean_pipeline
    trace,     \* history: the steps clean_pipeline has called, in order
    pipeIn,    \* history: self.df when clean_pipeline was entered
    logIn,     \* history: cleaning_log when clean_pipeline was entered
    nops,      \* the number of stand-alone steps called so far
    raised,    \* whether the step called last ended by raising
    report,    \* the table get_cleaning_report returned last, as the caller holds it
    pdf,       \* DataProfiler.df
    score,     \* what data_quality_score returned last
    missing,   \* what missing_value_report returned last
    gen,       \* the number of cleaners constructed from a pipeline's result
    genFlag,   \* history: the remove_outliers flag of the pipeline whose
               \* result the present cleaner was constructed from
    files,     \* the names in the data directory
    files0,    \* history: the names in the data directory at the start
    loaded,    \* what the last load_country_data returned or raised, with the
               \* country asked for and the listing it read
    csv,       \* load_csv: the file, the strategy that comes next, the
               \* strategies tried and what it returned or raised
    outliers,  \* what detect_outliers_zscore returned or raised last, with
               \* its arguments
    pair,      \* two cleaners constructed from one table
    app        \* the dashboard: what load_countries returned or raised last

loaderVars == <<files, files0, loaded>>

otherVars == <<outliers, pair, app>>

cleanerVars ==
    <<orig, input0, df, dfRef, log, pc, flag, trace, pipeIn, logIn, nops,
      raised, report, pdf, score, missing, gen, genFlag>>

vars == <<orig, input0, df, dfRef, log, pc, flag, trace, pipeIn, logIn, nops,
          raised, report, pdf, score, missing, gen, genFlag, loaderVars, csv, otherVars>>

\* self.df
Cur == IF dfRef = "own" THEN df ELSE orig

NoReport == [cols |-> <<"none">>, rows |-> <<>>]
NoMissingReport ==
    <<[column |-> "none", missing_count |-> 0, missing_percent |-> RInt(0), dtype |-> "none"]>>
Step(op, arg, columns, threshold) ==
    [op |-> op, arg |-> arg, columns |-> columns, threshold |-> threshold]

\* self.df = df, without the copy: self.df is the caller's DataFrame.
InitDfRefCaller == "caller"

\* DataCleaner.__init__: self.df = df.copy() binds self.df to a DataFrame of
\* the cleaner's own.
InitDfRef == "own"

\* log_action assigning cleaning_log = [entry] in place of appending.
log_action_overwriting(entries) == entries

\* DataCleaner.log_action: cleaning_log.append for each entry of a step.
log_action(entries) == log \o entries

\* No load yet, and no file given to load_csv.
NoLoad == [status |-> "none", file |-> <<>>, country |-> <<>>, listing |-> <<>>]
NoCsv ==
    [status |-> "none", exists |-> FALSE, content |-> <<>>, next |-> 1, tried |-> <<>>,
     by |-> 0, columns |-> <<>>, error |-> ""]

\* No detect_outliers_zscore yet, no pair of cleaners and no dashboard.
NoOutliers == [status |-> "none", columns |-> <<>>, threshold |-> RInt(0), entries |-> <<>>]
NoPair == [status |-> "none"]
NoApp == [status |-> "none", calls |-> 0]

NoOthers == outliers = NoOutliers /\ pair = NoPair /\ app = NoApp

Init ==
    /\ orig \in InputTables
    /\ input0 = orig
    /\ df = orig
    /\ dfRef = InitDfRef
    /\ log = <<>>
    /\ pc = "idle"
    /\ flag = FALSE
    /\ trace = <<>>
    /\ pipeIn = orig
    /\ logIn = <<>>
    /\ nops = 0
    /\ raised = FALSE
    /\ report = NoReport
    /\ pdf = orig
    /\ score = [status |-> "none"]
    /\ missing = NoMissingReport
    /\ gen = 0
    /\ genFlag = FALSE
    /\ files = {}
    /\ files0 = {}
    /\ loaded = NoLoad
    /\ csv = NoCsv
    /\ NoOthers

\* One step with outcome o: self.df is rebound to a new DataFrame, or the
\* DataFrame it is bound to is changed in place.
Apply(o) ==
    /\ IF o.rebound \/ dfRef = "own"
       THEN df' = o.t /\ dfRef' = "own" /\ orig' = orig
       ELSE orig' = o.t /\ df' = df /\ dfRef' = dfRef
    /\ log' = log_action(o.log)
    /\ raised' = o.raised
    /\ UNCHANGED <<input0, report, pdf, score, missing, gen, genFlag, loaderVars, csv, otherVars>>

\* ------------------------------------------------- the stand-alone steps

\* A caller's own sequence of steps comes before clean_pipeline, on the
\* first cleaner.
CanCall == pc = "idle" /\ gen = 0 /\ nops < MaxOps

Called == nops' = nops + 1 /\ UNCHANGED <<pc, flag, trace, pipeIn, logIn>>

RemoveDuplicates ==
    /\ CanCall
    /\ Apply(remove_duplicates(Cur))
    /\ Called

CoerceNumericColumns ==
    /\ CanCall
    /\ Apply(coerce_numeric_columns(Cur))
    /\ Called

HandleMissingValuesAt(strategy, threshold) ==
    /\ CanCall
    /\ Apply(handle_missing_values(Cur, strategy, threshold))
    /\ Called

HandleMissingValuesWith(strategy) ==
    \E threshold \in Thresholds : HandleMissingValuesAt(strategy, threshold)

HandleMissingValues == \E strategy \in Strategies : HandleMissingValuesWith(strategy)

ValidateIrradianceValues ==
    /\ CanCall
    /\ Apply(validate_irradiance_values(Cur))
    /\ Called

RemoveOutliersZscoreOf(columns, threshold) ==
    /\ CanCall
    /\ Apply(remove_outliers_zscore(Cur, columns, threshold))
    /\ Called

RemoveOutliersZscore ==
    \E columns \in ZColumnLists, threshold \in ZThresholds :
        RemoveOutliersZscoreOf(columns, threshold)

CapOutliersIqrOf(columns) ==
    /\ CanCall
    /\ Apply(cap_outliers_iqr(Cur, columns))
    /\ Called

CapOutliersIqr == \E columns \in CapColumnLists : CapOutliersIqrOf(columns)

\* ------------------------------------------------------------ clean_pipeline

\* clean_pipeline(remove_outliers) calls its steps one after the other; pc
\* names the call that comes next and trace the calls made. A step that
\* raises ends the pipeline.
PipelineStep(step, o, next) ==
    /\ Apply(o)
    /\ pc' = IF o.raised THEN "failed" ELSE next
    /\ trace' = Append(trace, step)
    /\ UNCHANGED nops

CleanPipeline ==
    /\ pc = "idle"
    /\ \E remove_outliers \in BOOLEAN : flag' = remove_outliers
    /\ pipeIn' = Cur
    /\ logIn' = log
    /\ PipelineStep(Step("remove_duplicates", "", <<>>, RInt(0)),
                    remove_duplicates(Cur), "coerce_numeric_columns")

PipelineCoerce ==
    /\ pc = "coerce_numeric_columns"
    /\ PipelineStep(Step("coerce_numeric_columns", "", <<>>, RInt(0)),
                    coerce_numeric_columns(Cur), "handle_missing_values")
    /\ UNCHANGED <<flag, pipeIn, logIn>>

\* clean_pipeline without its handle_missing_values line.
PipelineWithoutMissing ==
    /\ pc = "handle_missing_values"
    /\ pc' = "validate_irradiance_values"
    /\ UNCHANGED <<orig, input0, df, dfRef, log, flag, trace, pipeIn, logIn, nops,
                   raised, report, pdf, score, missing, gen, genFlag, loaderVars, csv, otherVars>>

PipelineMissing ==
    /\ pc = "handle_missing_values"
    /\ PipelineStep(Step("handle_missing_values", "median", <<>>, DefaultThreshold),
                    handle_missing_values(Cur, "median", DefaultThreshold),
                    "validate_irradiance_values")
    /\ UNCHANGED <<flag, pipeIn, logIn>>

PipelineValidate ==
    /\ pc = "validate_irradiance_values"
    /\ PipelineStep(Step("validate_irradiance_values", "", <<>>, RInt(0)),
                    validate_irradiance_values(Cur),
                    IF flag THEN "remove_outliers_zscore" ELSE "done")
    /\ UNCHANGED <<flag, pipeIn, logIn>>

PipelineOutliers ==
    /\ pc = "remove_outliers_zscore"
    /\ PipelineStep(Step("remove_outliers_zscore", "", PipelineOutlierCols, PipelineZThreshold),
                    remove_outliers_zscore(Cur, PipelineOutlierCols, PipelineZThreshold),
                    "done")
    /\ UNCHANGED <<flag, pipeIn, logIn>>

\* ------------------------------------------------------------- the callers

\* Whether the table get_cleaning_report returns shares its rows with
\* cleaning_log: pd.DataFrame(list) builds a table of its own.
ReportSharesLog == FALSE

GetCleaningReport ==
    /\ pc \in {"idle", "done"}
    /\ report' = get_cleaning_report(log)
    /\ UNCHANGED <<orig, input0, df, dfRef, log, pc, flag, trace, pipeIn, logIn, nops,
                   raised, pdf, score, missing, gen, genFlag, loaderVars, csv, otherVars>>

\* The caller drops the rows of the report it holds.
ModifyReport ==
    /\ report # NoReport
    /\ report.rows # <<>>
    /\ report' = [report EXCEPT !.rows = <<>>]
    /\ log' = IF ReportSharesLog THEN <<>> ELSE log
    /\ UNCHANGED <<orig, input0, df, dfRef, pc, flag, trace, pipeIn, logIn, nops,
                   raised, pdf, score, missing, gen, genFlag, loaderVars, csv, otherVars>>

\* The profiler shares nothing with the cleaner, so where its calls fall
\* among the cleaner's makes no difference to either: they are placed
\* before the cleaner's.
DataQualityScore ==
    /\ pc = "idle" /\ nops = 0
    /\ score' = data_quality_score(pdf)
    /\ UNCHANGED <<orig, input0, df, dfRef, log, pc, flag, trace, pipeIn, logIn, nops,
                   raised, report, pdf, missing, gen, genFlag, loaderVars, csv, otherVars>>

MissingValueReport ==
    /\ pc = "idle" /\ nops = 0
    /\ missing' \in missing_value_report(pdf)
    /\ UNCHANGED <<orig, input0, df, dfRef, log, pc, flag, trace, pipeIn, logIn, nops,
                   raised, report, pdf, score, gen, genFlag, loaderVars, csv, otherVars>>

\* The caller constructs a new DataCleaner from the table clean_pipeline
\* returned, and a new DataProfiler with it.
NewCleaner ==
    /\ pc = "done"
    /\ gen < MaxGen
    /\ orig' = Cur
    /\ input0' = Cur
    /\ df' = Cur
    /\ dfRef' = InitDfRef
    /\ log' = <<>>
    /\ pc' = "idle"
    /\ trace' = <<>>
    /\ pipeIn' = Cur
    /\ logIn' = <<>>
    /\ raised' = FALSE
    /\ pdf' = Cur
    /\ score' = [status |-> "none"]
    /\ missing' = NoMissingReport
    /\ gen' = gen + 1
    /\ genFlag' = flag
    /\ UNCHANGED <<flag, nops, report, loaderVars, csv, otherVars>>

Next ==
    \/ RemoveDuplicates
    \/ CoerceNumericColumns
    \/ HandleMissingValues
    \/ ValidateIrradianceValues
    \/ RemoveOutliersZscore
    \/ CapOutliersIqr
    \/ CleanPipeline
    \/ PipelineCoerce
    \/ PipelineMissing
    \/ PipelineValidate
    \/ PipelineOutliers
    \/ GetCleaningReport
    \/ ModifyReport
    \/ DataQualityScore
    \/ MissingValueReport
    \/ NewCleaner

Spec == Init /\ [][Next]_vars

\* A cleaner that is not looked at: one on the empty table.
NoCleaner ==
    LET t == [cols |-> <<"GHI">>, dtype |-> [x \in {"GHI"} |-> "num"], rows |-> <<>>]
    IN  /\ orig = t /\ input0 = t /\ df = t /\ pipeIn = t /\ pdf = t
        /\ dfRef = InitDfRef
        /\ log = <<>> /\ logIn = <<>> /\ trace = <<>>
        /\ pc = "idle" /\ flag = FALSE /\ nops = 0 /\ raised = FALSE
        /\ report = NoReport
        /\ score = [status |-> "none"]
        /\ missing = NoMissingReport
        /\ gen = 0 /\ genFlag = FALSE

\* ---------------------------------------------- two cleaners of one table

Instances == {1, 2}
Other(i) == 3 - i

\* cleaning_log as one list of the class, shared by the instances.
SharedLogRef(i) == 1

\* DataCleaner.__init__: self.cleaning_log = [] binds cleaning_log to a new
\* list of the instance's own.
InitLogRef(i) == i

\* self.df and self.cleaning_log of instance i.
PairCur(i) == IF pair.inst[i].ref = "own" THEN pair.inst[i].df ELSE pair.caller
PairLog(i) == pair.logs[pair.inst[i].logRef]

\* Whether clean_pipeline has been entered and has not returned.
MidPipeline(p) == p \notin {"unborn", "idle", "done", "failed"}

\* A caller holds one table and will run clean_pipeline with one flag on
\* two cleaners it constructs from the table.
PairInit ==
    /\ NoCleaner
    /\ files = {} /\ files0 = {} /\ loaded = NoLoad
    /\ csv = NoCsv
    /\ outliers = NoOutliers /\ app = NoApp
    /\ \E t \in InputTables, remove_outliers \in BOOLEAN :
          pair = [status |-> "run", caller |-> t, input |-> t, flag |-> remove_outliers,
                  mixed |-> FALSE,
                  inst |-> [i \in Instances |->
                              [ref |-> "own", df |-> t, logRef |-> i, pc |-> "unborn"]],
                  logs |-> [i \in Instances |-> <<>>]]

\* DataCleaner(df) for instance i.
PairConstructOf(i) ==
    /\ pair.status = "run"
    /\ pair.inst[i].pc = "unborn"
    /\ pair' = [pair EXCEPT !.inst[i] = [ref |-> InitDfRef, df |-> pair.caller,
                                         logRef |-> InitLogRef(i), pc |-> "idle"]]
    /\ UNCHANGED <<cleanerVars, loaderVars, csv, outliers, app>>

\* One pipeline step of instance i with outcome o: as Apply, on the
\* instance's table and list.
PairApply(i, o, next) ==
    LET own == o.rebound \/ pair.inst[i].ref = "own"
    IN  /\ pair' = [pair EXCEPT
                       !.inst[i].df = IF own THEN o.t ELSE @,
                       !.inst[i].ref = IF own THEN "own" ELSE @,
                       !.inst[i].pc = IF o.raised THEN "failed" ELSE next,
                       !.caller = IF own THEN @ ELSE o.t,
                       !.logs[pair.inst[i].logRef] = @ \o o.log,
                       !.mixed = @ \/ MidPipeline(pair.inst[Other(i)].pc)]
        /\ UNCHANGED <<cleanerVars, loaderVars, csv, outliers, app>>

PairRemoveDuplicatesOf(i) ==
    /\ pair.status = "run"
    /\ pair.inst[i].pc = "idle"
    /\ PairApply(i, remove_duplicates(PairCur(i)), "coerce_numeric_columns")

PairCoerceOf(i) ==
    /\ pair.status = "run"
    /\ pair.inst[i].pc = "coerce_numeric_columns"
    /\ PairApply(i, coerce_numeric_columns(PairCur(i)), "handle_missing_values")

PairMissingOf(i) ==
    /\ pair.status = "run"
    /\ pair.inst[i].pc = "handle_missing_values"
    /\ PairApply(i, handle_missing_values(PairCur(i), "median", DefaultThreshold),
                 "validate_irradiance_values")

PairValidateOf(i) ==
    /\ pair.status = "run"
    /\ pair.inst[i].pc = "validate_irradiance_values"
    /\ PairApply(i, validate_irradiance_values(PairCur(i)),
                 IF pair.flag THEN "remove_outliers_zscore" ELSE "done")

PairOutliersOf(i) ==
    /\ pair.status = "run"
    /\ pair.inst[i].pc = "remove_outliers_zscore"
    /\ PairApply(i, remove_outliers_zscore(PairCur(i), PipelineOutlierCols, PipelineZThreshold),
                 "done")

PairStepOf(i) ==
    \/ PairRemoveDuplicatesOf(i)
    \/ PairCoerceOf(i)
    \/ PairMissingOf(i)
    \/ PairValidateOf(i)
    \/ PairOutliersOf(i)

PairConstruct == \E i \in Instances : PairConstructOf(i)
PairRemoveDuplicates == \E i \in Instances : PairRemoveDuplicatesOf(i)
PairCoerce == \E i \in Instances : PairCoerceOf(i)
PairMissing == \E i \in Instances : PairMissingOf(i)
PairValidate == \E i \in Instances : PairValidateOf(i)
PairOutliers == \E i \in Instances : PairOutliersOf(i)

PairNext ==
    \/ PairConstruct
    \/ PairRemoveDuplicates
    \/ PairCoerce
    \/ PairMissing
    \/ PairValidate
    \/ PairOutliers

PairSpec == PairInit /\ [][PairNext]_vars

\* --------------------------------------------------------------- the profiler

\* profiler.detect_outliers_zscore(columns, threshold), with a column list or
\* with the default.
DetectOutliersZscore ==
    /\ pc = "idle" /\ nops = 0
    /\ \E columns \in DetectColumnLists \cup {DefaultDetectColumns(pdf)},
          threshold \in ZThresholds :
          outliers' = detect_outliers_zscore(pdf, columns, threshold)
    /\ UNCHANGED <<cleanerVars, loaderVars, csv, pair, app>>

ProfilerNext ==
    \/ DetectOutliersZscore
    \/ DataQualityScore
    \/ MissingValueReport

ProfilerSpec == Init /\ [][ProfilerNext]_vars

\* ------------------------------------------------------------ the data loader

LoaderInit ==
    /\ NoCleaner
    /\ files \in SUBSET RawNames
    /\ files0 = files
    /\ loaded = NoLoad
    /\ csv = NoCsv
    /\ NoOthers

\* loader.load_country_data(country)
LoadCountryData ==
    /\ \E country \in Countries, listing \in Listings(files) :
          loaded' = load_country_data(listing, country)
                        @@ [country |-> country, listing |-> listing]
    /\ UNCHANGED <<files, files0, csv, cleanerVars, otherVars>>

\* clean_dataset(country, output_dir) with output_dir the data directory:
\* the raw file is loaded, cleaned and saved under the name of the country.
\* Without a raw file it returns before it writes; a pipeline that raises
\* writes nothing either.
CleanDatasetOf(country) ==
    /\ \E listing \in Listings(files), saved \in BOOLEAN :
          LET df0 == load_country_data(listing, country)
          IN  /\ loaded' = df0 @@ [country |-> country, listing |-> listing]
              /\ files' = IF df0.status = "loaded" /\ saved
                          THEN files \cup {CleanFileName(country)}
                          ELSE files
    /\ UNCHANGED <<files0, csv, cleanerVars, otherVars>>

CleanDataset == \E country \in Countries : CleanDatasetOf(country)

LoaderNext ==
    \/ LoadCountryData
    \/ CleanDataset

LoaderSpec == LoaderInit /\ [][LoaderNext]_vars

\* ------------------------------------------------------------------- load_csv

CsvInit ==
    /\ NoCleaner
    /\ files = {} /\ files0 = {} /\ loaded = NoLoad
    /\ NoOthers
    /\ \E exists \in BOOLEAN, content \in Contents :
          /\ ~exists => content = <<>>
          /\ csv = [NoCsv EXCEPT !.status = "called", !.exists = exists,
                                  !.content = content]

\* load_csv(filename) up to its loop: a file that does not exist raises
\* FileNotFoundError.
LoadCsv ==
    /\ csv.status = "called"
    /\ csv' = IF csv.exists
              THEN [csv EXCEPT !.status = "reading"]
              ELSE [csv EXCEPT !.status = "raised", !.error = "FileNotFoundError"]
    /\ UNCHANGED <<loaderVars, cleanerVars, otherVars>>

\* One turn of the loop over the strategies: the table read is returned,
\* with its timestamp column renamed when it has one; an exception is kept
\* as last_exception and the next strategy tried, and raised after the last.
ReadCsv ==
    /\ csv.status = "reading"
    /\ LET r == read_csv(csv.content, ReadStrategies[csv.next])
           tried == Append(csv.tried, csv.next)
       IN  csv' = IF r.ok
                  THEN [csv EXCEPT !.status = "returned", !.tried = tried,
                                   !.by = csv.next,
                                   !.columns = RenameTimestamp(r.columns)]
                  ELSE IF csv.next < Len(ReadStrategies)
                  THEN [csv EXCEPT !.next = csv.next + 1, !.tried = tried,
                                   !.error = r.error]
                  ELSE [csv EXCEPT !.status = "raised", !.tried = tried,
                                   !.error = r.error]
    /\ UNCHANGED <<loaderVars, cleanerVars, otherVars>>

CsvNext ==
    \/ LoadCsv
    \/ ReadCsv

CsvSpec == CsvInit /\ [][CsvNext]_vars

\* -------------------------------------------------------------- the dashboard

\* _slug: re.sub(r"[^a-z0-9]+", "_", name.strip().lower()), every run of
\* other characters replaced by one underscore.
RECURSIVE SlugFrom(_, _)
SlugFrom(s, inRun) ==
    IF s = <<>> THEN <<>>
    ELSE IF Head(s) \in Range(LowerCase) \cup Range(Digits)
    THEN <<Head(s)>> \o SlugFrom(Tail(s), FALSE)
    ELSE (IF inRun THEN <<>> ELSE <<"_">>) \o SlugFrom(Tail(s), TRUE)

app_slug(name) == SlugFrom(Lower(Strip(name)), FALSE)

\* _find_clean_file returning None.
NotFound == <<>>

\* _find_clean_file(country) on the names of the data directory: the exact
\* '<slug>_clean.csv' when it exists, else the first in sorted order of the
\* '*.csv' names that contain the slug and 'clean' when lower-cased.
find_clean_file(names, country) ==
    LET exact == app_slug(country) \o <<"_">> \o CleanMarker \o CsvSuffix
        candidates == {f \in names :
                          /\ EndsWith(f, CsvSuffix)
                          /\ Contains(Lower(f), app_slug(country))
                          /\ Contains(Lower(f), CleanMarker)}
    IN  IF exact \in names THEN exact
        ELSE IF candidates # {} THEN SortFrom(SetToSeq(candidates))[1]
        ELSE NotFound

\* What a cleaned file holds when it is read: a table of some rows, none
\* included, or nothing pd.read_csv can parse (an empty file).
FileKinds ==
    {[ok |-> TRUE, rows |-> n] : n \in 0..MaxFileRows} \cup {[ok |-> FALSE, rows |-> 0]}

\* load_country(country) on a miss of its cache: an empty table without a
\* file, else the rows of the file with the Country column set to the name
\* asked for; pd.read_csv may raise.
load_country(names, kind, country) ==
    LET fp == find_clean_file(names, country)
    IN  IF fp = NotFound THEN [ok |-> TRUE, rows |-> <<>>]
        ELSE IF ~kind[fp].ok THEN [ok |-> FALSE, rows |-> <<>>]
        ELSE [ok |-> TRUE,
              rows |-> [k \in 1..kind[fp].rows |->
                          [Country |-> country, file |-> fp, row |-> k]]]

\* frames = [load_country(c) for c in countries], without the empty ones,
\* concatenated; an exception of load_country ends the call. No frame left
\* gives the empty table.
RECURSIVE ConcatFrames(_, _, _)
ConcatFrames(names, kind, countries) ==
    IF countries = <<>> THEN [ok |-> TRUE, rows |-> <<>>]
    ELSE LET frame == load_country(names, kind, Head(countries))
             rest == ConcatFrames(names, kind, Tail(countries))
         IN  IF ~frame.ok \/ ~rest.ok THEN [ok |-> FALSE, rows |-> <<>>]
             ELSE [ok |-> TRUE, rows |-> frame.rows \o rest.rows]

load_countries(names, kind, countries) ==
    LET r == ConcatFrames(names, kind, countries)
    IN  [status |-> IF r.ok THEN "ok" ELSE "EmptyDataError",
         rows |-> r.rows, countries |-> countries, dir |-> names, kind |-> kind]

\* The dashboard's countries, 'Benin', 'Togo' and 'B. Faso', their raw
\* files and a cleaned file of another naming, 'Togo_Cleaned.csv'.
AppCountries ==
    {<<"B", "e", "n", "i", "n">>, <<"T", "o", "g", "o">>,
     <<"B", ".", " ", "F", "a", "s", "o">>}

BFasoCsv == <<"b", "f", "a", "s", "o">> \o CsvSuffix
TogoCleanedCsv ==
    <<"T", "o", "g", "o", "_", "C", "l", "e", "a", "n", "e", "d">> \o CsvSuffix

AppDirectories ==
    {{BeninCsv, TogoRawCsv, BFasoCsv}, {BeninCsv, BFasoCsv, TogoCleanedCsv}}

Requests == UNION {[1..n -> AppCountries] : n \in 1..MaxRequest}

AppInit ==
    /\ NoCleaner
    /\ files \in AppDirectories
    /\ files0 = files
    /\ loaded = NoLoad
    /\ csv = NoCsv
    /\ NoOthers

\* clean_dataset(country) for a country of the dashboard.
AppCleanDataset == \E country \in AppCountries : CleanDatasetOf(country)

\* load_countries(countries) on the data directory as it is, each file it
\* finds holding what it holds at that time.
LoadCountries ==
    /\ app.calls < MaxCalls
    /\ \E countries \in Requests :
          \E kind \in [{find_clean_file(files, countries[k]) : k \in DOMAIN countries}
                          \ {NotFound} -> FileKinds] :
              app' = load_countries(files, kind, countries)
                         @@ [calls |-> app.calls + 1]
    /\ UNCHANGED <<cleanerVars, loaderVars, csv, outliers, pair>>

AppNext ==
    \/ AppCleanDataset
    \/ LoadCountries

AppSpec == AppInit /\ [][AppNext]_vars

\* ------------------------------------------------------------------ claims

IsPrefix(a, b) == Len(a) <= Len(b) /\ SubSeq(b, 1, Len(a)) = a

HasEntry(action) == \E i \in DOMAIN log : log[i].action = action

\* Every cell of every irradiance column of t is a non-negative number or
\* missing.
NonNegativeIrradiance(t) ==
    \A x \in Range(IrradianceCols) \cap Range(t.cols) :
        \A i \in DOMAIN t.rows :
            \/ IsNull(t.rows[i].c[x])
            \/ IsNum(t.rows[i].c[x]) /\ t.rows[i].c[x].n >= 0

\* C1: whatever cleaner and profiler operations have run, the table the
\* caller passed to the constructors is as it was: same rows, same columns,
\* same cells.
C1_CallerTableUnchanged == orig = input0

\* The pipeline has changed the cleaner's table and the profiler has scored
\* its own; the caller's table was there to be changed.
C1_Witness ==
    /\ pc = "done"
    /\ Cur # input0
    /\ log # <<>>
    /\ score.status = "ok"

\* C2: a validate_irradiance_values call that returns leaves no negative
\* cell in any irradiance column present, and neither does the table
\* clean_pipeline returns, with or without outlier removal.
C2_IrradianceNonNegative ==
    [][/\ (ValidateIrradianceValues \/ PipelineValidate) /\ ~raised'
            => NonNegativeIrradiance(Cur')
       /\ pc' = "done" => NonNegativeIrradiance(Cur')]_vars

\* clean_pipeline has returned rows after fixing negative readings.
C2_Witness ==
    /\ pc = "done"
    /\ ~NonNegativeIrradiance(pipeIn)
    /\ HasEntry("Fixed negative values")
    /\ Len(Cur.rows) > 0

DuplicateRows(t) == {i \in DOMAIN t.rows : \E j \in 1..(i - 1) : t.rows[j].c = t.rows[i].c}
NegativeGhiRows(t) ==
    {i \in (DOMAIN t.rows) \ DuplicateRows(t) : HasCol(t, "GHI") /\ IsNegative(t.rows[i].c["GHI"])}

\* An all-numeric table with no missing value and no negative reading in an
\* irradiance column other than GHI.
C5_Scenario(t) ==
    /\ \A x \in Range(t.cols) : t.dtype[x] = "num"
    /\ \A i \in DOMAIN t.rows : \A x \in Range(t.cols) : IsNum(t.rows[i].c[x])
    /\ \A x \in (Range(IrradianceCols) \cap Range(t.cols)) \ {"GHI"} : NegativeCount(t, x) = 0

\* C5: on such a table of n rows with d duplicates and k distinct rows of
\* negative GHI, clean_pipeline(remove_outliers=False) returns n - d rows,
\* none with a negative GHI, and logs 'Removed duplicates' with d when d > 0,
\* then 'Fixed negative values' for GHI with k when k > 0, and nothing else.
C5_DuplicatesAndNegatives ==
    (pc = "done" /\ ~flag /\ C5_Scenario(pipeIn)) =>
        LET d == Cardinality(DuplicateRows(pipeIn))
            k == Cardinality(NegativeGhiRows(pipeIn))
        IN  /\ Len(Cur.rows) = Len(pipeIn.rows) - d
            /\ HasCol(Cur, "GHI") => NegativeCount(Cur, "GHI") = 0
            /\ log = logIn
                     \o (IF d > 0 THEN <<Entry("Removed duplicates", "", d)>> ELSE <<>>)
                     \o (IF k > 0 THEN <<Entry("Fixed negative values", "GHI", k)>> ELSE <<>>)

\* The scenario with a duplicate and a negative GHI, on a new cleaner.
C5_Witness ==
    /\ pc = "done" /\ ~flag /\ C5_Scenario(pipeIn)
    /\ logIn = <<>>
    /\ DuplicateRows(pipeIn) # {}
    /\ NegativeGhiRows(pipeIn) # {}

\* The steps of clean_pipeline(remove_outliers) in order, and the table they
\* leave when each works on the table the one before left.
StepsOf(remove_outliers) ==
    <<Step("remove_duplicates", "", <<>>, RInt(0)),
      Step("coerce_numeric_columns", "", <<>>, RInt(0)),
      Step("handle_missing_values", "median", <<>>, DefaultThreshold),
      Step("validate_irradiance_values", "", <<>>, RInt(0))>>
    \o (IF remove_outliers
        THEN <<Step("remove_outliers_zscore", "", PipelineOutlierCols, PipelineZThreshold)>>
        ELSE <<>>)

StepsComposed(t, remove_outliers) ==
    LET a == remove_duplicates(t).t
        b == coerce_numeric_columns(a).t
        c == handle_missing_values(b, "median", DefaultThreshold).t
        d == validate_irradiance_values(c).t
    IN  IF remove_outliers
        THEN remove_outliers_zscore(d, PipelineOutlierCols, PipelineZThreshold).t
        ELSE d

\* C6: clean_pipeline calls remove_duplicates, coerce_numeric_columns,
\* handle_missing_values('median'), validate_irradiance_values and, only when
\* remove_outliers is true, remove_outliers_zscore: each once, in this
\* order, each on the table the one before left, and none is skipped.
C6_PipelineOrder ==
    /\ pc # "failed"
    /\ pc = "done" =>
          /\ trace = StepsOf(flag)
          /\ Cur = StepsComposed(pipeIn, flag)
    /\ pc \notin {"idle", "done"} =>
          \E n \in 1..4 :
              /\ trace = SubSeq(StepsOf(TRUE), 1, n)
              /\ pc = StepsOf(TRUE)[n + 1].op

\* clean_pipeline(remove_outliers=True) has run its five steps, changed the
\* table and returned rows.
C6_Witness ==
    /\ pc = "done" /\ flag /\ Len(trace) = 5
    /\ Len(Cur.rows) > 0
    /\ Cur # pipeIn

\* C7: cleaning_log is empty when the cleaner is constructed, every
\* operation leaves the log it found as a prefix of the log it leaves, and
\* get_cleaning_report and a change to the table it returned leave the log
\* as it is.
C7_LogAppendOnly ==
    /\ log = <<>>
    /\ [][/\ gen' = gen => IsPrefix(log, log')
          /\ gen' # gen => log' = <<>>
          /\ (GetCleaningReport \/ ModifyReport) => log' = log]_vars

\* The caller emptied a report of two entries; the log still holds them.
C7_Witness ==
    /\ Len(log) >= 2
    /\ report.cols = <<"action", "details">>
    /\ report.rows = <<>>

\* A call of a cleaner step, stand-alone or from clean_pipeline.
AnyStep ==
    \/ RemoveDuplicates \/ CoerceNumericColumns \/ HandleMissingValues
    \/ ValidateIrradianceValues \/ RemoveOutliersZscore \/ CapOutliersIqr
    \/ CleanPipeline \/ PipelineCoerce \/ PipelineMissing \/ PipelineValidate
    \/ PipelineOutliers

LoggedIffChanged == (log' # log) <=> (Cur' # Cur)

\* C8 as claimed: every cleaner step appends a log entry if and only if it
\* changed the working table.
C8_EveryStepLoggedIffChanged == [][AnyStep => LoggedIffChanged]_vars

\* C8 as amended: remove_duplicates, validate_irradiance_values and
\* cap_outliers_iqr append a log entry if and only if they changed the
\* working table, and so does remove_outliers_zscore when it returns;
\* coerce_numeric_columns never logs; handle_missing_values logs 'Dropped
\* columns' if and only if it dropped a column, and with 'drop' it then
\* always logs 'Dropped rows' with the number of rows removed, zero
\* included; it logs nothing else, whatever cells it fills.
C8_LoggedSteps ==
    [][/\ (RemoveDuplicates \/ CleanPipeline \/ ValidateIrradianceValues
              \/ PipelineValidate \/ CapOutliersIqr) => LoggedIffChanged
       /\ (RemoveOutliersZscore \/ PipelineOutliers) /\ ~raised' => LoggedIffChanged
       /\ (CoerceNumericColumns \/ PipelineCoerce) => log' = log
       /\ \A strategy \in Strategies :
             (HandleMissingValuesWith(strategy) \/ (strategy = "median" /\ PipelineMissing))
                => log' = log
                     \o (IF Cur'.cols # Cur.cols
                         THEN <<Entry("Dropped columns", "", Len(Cur.cols) - Len(Cur'.cols))>>
                         ELSE <<>>)
                     \o (IF strategy = "drop"
                         THEN <<Entry("Dropped rows", "", Len(Cur.rows) - Len(Cur'.rows))>>
                         ELSE <<>>)]_vars

\* clean_pipeline has coerced a text column, changing the table, and the log
\* is still empty.
C8_Witness ==
    /\ pc = "handle_missing_values"
    /\ Cur # pipeIn
    /\ log = <<>>

\* C9: get_cleaning_report returns a table with the columns 'action' and
\* 'details' and one row per log entry, in log order, whatever the log holds.
C9_ReportColumns ==
    [][GetCleaningReport =>
          /\ report'.cols = <<"action", "details">>
          /\ report'.rows = log]_vars

InPercentRange(r) == RLe(RInt(0), r) /\ RLe(r, RInt(100))

\* C10: for a table with at least one row, completeness, validity,
\* uniqueness and overall_quality all lie between 0 and 100.
C10_ScoresInRange ==
    score.status = "ok" =>
        /\ InPercentRange(score.completeness)
        /\ InPercentRange(score.validity)
        /\ InPercentRange(score.uniqueness)
        /\ InPercentRange(score.overall_quality)

\* The number of missing cells of t, of negative cells in its irradiance
\* columns, and of rows equal to an earlier row.
MissingCellsOf(t) ==
    Cardinality({<<i, x>> \in (DOMAIN t.rows) \X Range(t.cols) : t.rows[i].c[x].k = "nan"})

NegativeIrradianceCellsOf(t) ==
    Cardinality({<<i, x>> \in (DOMAIN t.rows)
                                \X (Range(t.cols) \cap {"GHI", "DNI", "DHI", "ModA", "ModB"}) :
                    t.rows[i].c[x].k = "num" /\ t.rows[i].c[x].n < 0})

\* C11: for a table with at least one row, data_quality_score returns
\* completeness = 100 * (cells - missing cells) / cells, validity = 100 -
\* 100 * (negative cells of the irradiance columns) / rows, uniqueness =
\* 100 * (rows - exact-duplicate rows) / rows and overall_quality = 0.4 *
\* completeness + 0.4 * validity + 0.2 * uniqueness; a table with no missing
\* cell, no negative irradiance reading and no duplicate row scores 100 on
\* all four.
C11_QualityScoreFormula ==
    score.status = "ok" =>
        LET rows == Len(pdf.rows)
            cells == rows * Len(pdf.cols)
            missingCells == MissingCellsOf(pdf)
            negative == NegativeIrradianceCellsOf(pdf)
            duplicates == Cardinality(DuplicateRows(pdf))
        IN  /\ rows >= 1
            /\ score.completeness = Rat(100 * (cells - missingCells), cells)
            /\ score.validity = RSub(RInt(100), Rat(100 * negative, rows))
            /\ score.uniqueness = Rat(100 * (rows - duplicates), rows)
            /\ score.overall_quality =
                  Rat(4 * score.completeness.n * score.validity.d * score.uniqueness.d
                        + 4 * score.validity.n * score.completeness.d * score.uniqueness.d
                        + 2 * score.uniqueness.n * score.completeness.d * score.validity.d,
                      10 * score.completeness.d * score.validity.d * score.uniqueness.d)
            /\ (missingCells = 0 /\ negative = 0 /\ duplicates = 0) =>
                  /\ score.completeness = RInt(100)
                  /\ score.validity = RInt(100)
                  /\ score.uniqueness = RInt(100)
                  /\ score.overall_quality = RInt(100)

\* A score of a table with a negative temperature, a missing cell and no
\* negative irradiance reading: validity is 100 and completeness is not.
C11_Witness ==
    /\ score.status = "ok"
    /\ HasCol(pdf, "Tamb")
    /\ \E i \in DOMAIN pdf.rows : IsNegative(pdf.rows[i].c["Tamb"])
    /\ \E i \in DOMAIN pdf.rows : IsNull(pdf.rows[i].c["Tamb"])
    /\ score.validity = RInt(100)
    /\ score.completeness # RInt(100)

\* C12: for a table of n >= 1 rows, missing_value_report has a row for a
\* column if and only if the column has a missing value, the row of a column
\* with k missing values reports the count k and the percentage 100 * k / n,
\* and the rows descend in percentage.
C12_MissingValueReport ==
    (missing # NoMissingReport /\ Len(pdf.rows) >= 1) =>
        LET n == Len(pdf.rows)
            K(x) == Cardinality({i \in DOMAIN pdf.rows : pdf.rows[i].c[x].k = "nan"})
        IN  /\ \A x \in Range(pdf.cols) :
                  Cardinality({i \in DOMAIN missing : missing[i].column = x})
                      = IF K(x) >= 1 THEN 1 ELSE 0
            /\ \A i \in DOMAIN missing :
                  /\ missing[i].column \in Range(pdf.cols)
                  /\ missing[i].missing_count = K(missing[i].column)
                  /\ missing[i].missing_percent = Rat(100 * K(missing[i].column), n)
            /\ \A i, j \in DOMAIN missing :
                  i < j => RLe(missing[j].missing_percent, missing[i].missing_percent)

\* A report of two columns in which the column with the larger share of
\* missing values, the second of the table, comes first.
C12_Witness ==
    /\ missing # NoMissingReport
    /\ Len(missing) = 2
    /\ missing[1].column = pdf.cols[2]
    /\ missing[1].missing_percent # missing[2].missing_percent

\* Whether the absolute Z-score of x among the values s exceeds the
\* threshold: |x - mean| / std > threshold, with the population standard
\* deviation. With std = 0 there is no Z-score to exceed anything.
ZExceeds(s, x, threshold) ==
    LET n == Len(s)
        sum == RSum(s)
        nvar == RSub(RMul(RInt(n), RSumSq(s)), RMul(sum, sum))
        ndev == RSub(RMul(RInt(n), x), sum)
    IN  /\ nvar.n > 0
        /\ RLt(RMul(RMul(threshold, threshold), nvar), RMul(ndev, ndev))

\* The pass of the fold for one column: the rows whose value in the column
\* has an absolute Z-score above the threshold, among the non-missing values
\* of the column in t, are removed as whole rows.
ZPass(t, col, threshold) ==
    [t EXCEPT !.rows = KeepPositions(t.rows,
        {i \in DOMAIN t.rows :
            ~(/\ t.rows[i].c[col].k = "num"
              /\ ZExceeds(NonNull(t, col), Val(t.rows[i].c[col]), threshold))})]

\* The sequential fold: the listed columns in list order, the absent ones
\* skipped, each pass on the rows the passes before it left.
RECURSIVE ZFold(_, _, _)
ZFold(t, cols, threshold) ==
    IF cols = <<>> THEN t
    ELSE ZFold(IF HasCol(t, Head(cols)) THEN ZPass(t, Head(cols), threshold) ELSE t,
               Tail(cols), threshold)

\* C13: remove_outliers_zscore(columns, t) returns the sequential fold over
\* the listed columns: for each present column in list order, the rows whose
\* absolute Z-score, against the mean and standard deviation of the rows that
\* survived the columns before, exceeds t are removed as whole rows.
C13_SequentialFold ==
    [][\A columns \in ZColumnLists, threshold \in ZThresholds :
          (RemoveOutliersZscoreOf(columns, threshold) /\ ~raised')
              => Cur' = ZFold(Cur, columns, threshold)]_vars

\* The table t without the columns drop.
WithoutColumns(t, drop) ==
    [cols  |-> SelectSeq(t.cols, LAMBDA x : x \notin drop),
     dtype |-> [x \in Range(t.cols) \ drop |-> t.dtype[x]],
     rows  |-> [i \in DOMAIN t.rows |->
                  [lab |-> t.rows[i].lab,
                   c   |-> [x \in Range(t.cols) \ drop |-> t.rows[i].c[x]]]]]

\* The columns of t whose fraction of missing cells is strictly greater than
\* the threshold.
OverThreshold(t, threshold) ==
    {x \in Range(t.cols) :
        /\ Len(t.rows) >= 1
        /\ RLt(threshold,
               Rat(Cardinality({i \in DOMAIN t.rows : t.rows[i].c[x].k = "nan"}), Len(t.rows)))}

DroppedColumnsEntry(dropped) ==
    IF dropped # {} THEN <<Entry("Dropped columns", "", Cardinality(dropped))>> ELSE <<>>

\* C14: handle_missing_values(strategy, threshold) first drops exactly the
\* columns whose fraction of missing cells is strictly greater than the
\* threshold, logging one 'Dropped columns' entry with their number if and
\* only if there is one, and only then applies the strategy, to the table of
\* the surviving columns; for every strategy value.
C14_ThresholdThenStrategy ==
    [][\A strategy \in Strategies, threshold \in Thresholds :
          HandleMissingValuesAt(strategy, threshold) =>
              LET dropped == OverThreshold(Cur, threshold)
                  surviving == WithoutColumns(Cur, dropped)
                  then == handle_missing_values(surviving, strategy, threshold)
              IN  /\ ~raised'
                  /\ Cur'.cols = surviving.cols
                  /\ Cur' = then.t
                  /\ log' = log \o DroppedColumnsEntry(dropped) \o then.log
                  /\ \A i \in DOMAIN then.log : then.log[i].action # "Dropped columns"]_vars

\* One call has dropped a column and kept another whose fraction of missing
\* cells equals the threshold 0.5.
C14_Witness ==
    /\ nops = 1 /\ pc = "idle"
    /\ Len(log) >= 1 /\ log[1] = Entry("Dropped columns", "", 1)
    /\ Len(input0.rows) = 2
    /\ \E x \in Range(Cur.cols) : NullCount(input0, x) = 1

\* The k-th smallest of the values s, and their median and mean.
Kth(s, k) ==
    CHOOSE x \in Range(s) :
        /\ Cardinality({i \in DOMAIN s : RLt(s[i], x)}) < k
        /\ k <= Cardinality({i \in DOMAIN s : RLe(s[i], x)})

MedianOf(s) == RDiv(RAdd(Kth(s, (Len(s) + 1) \div 2), Kth(s, Len(s) \div 2 + 1)), RInt(2))

MeanOf(s) == RDiv(RSum(s), RInt(Len(s)))

\* What a fill with the column's own statistic leaves of the table before:
\* as many rows, and in every numeric column no missing cell, the
\* statistic of the column's non-missing values in the cells that were
\* missing, and the other cells as they were.
FilledWith(before, after, strategy) ==
    /\ Len(after.rows) = Len(before.rows)
    /\ \A x \in Range(after.cols), i \in DOMAIN after.rows :
          LET old == before.rows[i].c[x]
              new == after.rows[i].c[x]
              s == NonNull(before, x)
          IN  /\ after.dtype[x] = "num" => new.k # "nan"
              /\ old.k # "nan" => new = old
              /\ (after.dtype[x] = "num" /\ old.k = "nan") =>
                    new = NumR(IF strategy = "median" THEN MedianOf(s) ELSE MeanOf(s))

\* C15: after handle_missing_values with 'median' or 'mean' and the
\* threshold 0.5, no surviving numeric column holds a missing value, every
\* cell that was missing holds the median (the mean) of the column's
\* non-missing values, every other cell is unchanged and so is the row count.
C15_MedianMeanFill ==
    [][/\ \A strategy \in {"median", "mean"} :
             HandleMissingValuesAt(strategy, DefaultThreshold)
                 => FilledWith(Cur, Cur', strategy)
       /\ PipelineMissing => FilledWith(Cur, Cur', "median")]_vars

\* A median fill of a column whose median, 0, differs from its mean.
C15_Witness ==
    /\ nops = 1 /\ pc = "idle"
    /\ input0.cols = <<"GHI">> /\ Len(input0.rows) = 4
    /\ [i \in 1..4 |-> input0.rows[i].c["GHI"]] = <<Num(0, 1), Num(0, 1), Num(1, 1), NaN>>
    /\ Cur.cols = <<"GHI">> /\ Len(Cur.rows) = 4
    /\ [i \in 1..4 |-> Cur.rows[i].c["GHI"]] = <<Num(0, 1), Num(0, 1), Num(1, 1), Num(0, 1)>>

\* C16: after handle_missing_values('drop') the table holds exactly the rows
\* that had no missing value in any surviving column, in their order, so
\* that no cell is missing; the number of rows removed is the number of rows
\* that had a missing value there, and the 'Dropped rows' entry reports it.
C16_DropRows ==
    [][\A threshold \in Thresholds :
          HandleMissingValuesAt("drop", threshold) =>
              LET complete == {i \in DOMAIN Cur.rows :
                                  \A x \in Range(Cur'.cols) : Cur.rows[i].c[x].k # "nan"}
                  Pos(k) == CHOOSE i \in complete :
                                Cardinality({j \in complete : j < i}) = k - 1
                  removed == Cardinality((DOMAIN Cur.rows) \ complete)
              IN  /\ Len(Cur'.rows) = Cardinality(complete)
                  /\ \A k \in DOMAIN Cur'.rows :
                        /\ Cur'.rows[k].lab = Cur.rows[Pos(k)].lab
                        /\ \A x \in Range(Cur'.cols) :
                              /\ Cur'.rows[k].c[x] = Cur.rows[Pos(k)].c[x]
                              /\ Cur'.rows[k].c[x].k # "nan"
                  /\ removed = Len(Cur.rows) - Len(Cur'.rows)
                  /\ Len(log') = Len(log) + (IF Cur'.cols # Cur.cols THEN 2 ELSE 1)
                  /\ log'[Len(log')] = Entry("Dropped rows", "", removed)]_vars

\* A 'drop' that dropped a column, removed one row for a missing value in a
\* surviving column and kept a row whose only missing value was in the
\* dropped column.
C16_Witness ==
    /\ nops = 1 /\ pc = "idle"
    /\ log = <<Entry("Dropped columns", "", 1), Entry("Dropped rows", "", 1)>>
    /\ Len(Cur.rows) = 1

\* C17 as claimed: handle_missing_values with a strategy name outside
\* 'median', 'mean', 'forward_fill', 'drop' raises nothing and leaves the
\* working table and the cleaning log as they were.
C17_UnknownStrategyNoOp ==
    [][\A threshold \in Thresholds :
          HandleMissingValuesAt("interpolate", threshold) =>
              (~raised' /\ Cur' = Cur /\ log' = log)]_vars

\* C17 as amended: with such a strategy name handle_missing_values raises
\* nothing, still drops the columns whose fraction of missing cells is above
\* the threshold and logs 'Dropped columns' if there is one, and does
\* nothing else: no row is removed and no surviving cell changes.
C17_UnknownStrategyDropsColumns ==
    [][\A threshold \in Thresholds :
          HandleMissingValuesAt("interpolate", threshold) =>
              LET dropped == OverThreshold(Cur, threshold)
              IN  /\ ~raised'
                  /\ Cur' = WithoutColumns(Cur, dropped)
                  /\ log' = log \o DroppedColumnsEntry(dropped)]_vars

\* A call with an unknown strategy has dropped a column and left a missing
\* value below a present one, which every known strategy would have filled
\* or removed.
C17_Witness ==
    /\ nops = 1 /\ pc = "idle"
    /\ log = <<Entry("Dropped columns", "", 1)>>
    /\ Cur.cols = <<"GHI">> /\ Len(Cur.rows) = 2
    /\ Cur.rows[1].c["GHI"] = Num(1, 1)
    /\ IsNull(Cur.rows[2].c["GHI"])

\* The names of the directory that end in '.csv' when lower-cased, do not
\* contain 'clean' and, reduced to lower-case letters and digits, contain the
\* country name reduced the same way.
CandidateSet(names, country) ==
    LET Reduced(s) == SelectSeq(Lower(s), IsAlnum)
    IN  {f \in names :
            /\ EndsWith(Lower(f), <<".", "c", "s", "v">>)
            /\ ~Contains(Lower(f), <<"c", "l", "e", "a", "n">>)
            /\ Contains(Reduced(f), Reduced(country))}

\* C18: load_country_data fails with a not-found error if and only if the
\* directory holds no candidate, and otherwise loads the candidate whose name
\* is lexicographically smallest, whatever the order of the listing.
C18_CandidateSelection ==
    loaded.status # "none" =>
        LET candidates == CandidateSet(Range(loaded.listing), loaded.country)
        IN  /\ loaded.status = "FileNotFoundError" <=> candidates = {}
            /\ candidates # {} =>
                  /\ loaded.status = "loaded"
                  /\ loaded.file \in candidates
                  /\ \A f \in candidates : f = loaded.file \/ StrLess(loaded.file, f)

\* 'Benin-2.CSV' was loaded for 'benin' out of a listing that began with
\* another name and held 'benin.csv' and a cleaned file of benin as well.
C18_Witness ==
    /\ loaded.status = "loaded"
    /\ loaded.file = Benin2Csv
    /\ loaded.listing[1] # Benin2Csv
    /\ BeninCsv \in Range(loaded.listing)
    /\ CleanFileName(loaded.country) \in Range(loaded.listing)

\* Whether a strategy parses the file and its table has a timestamp column.
ParsesWithTimestamp(content, i) ==
    LET r == read_csv(content, ReadStrategies[i])
    IN  r.ok /\ \E c \in DOMAIN r.columns : Lower(Strip(r.columns[c])) = Lower(TimestampName)

\* C19: load_csv tries the strategies in their order, and the table it
\* returns is that of the first strategy that parses and has a column whose
\* trimmed, lower-cased name is 'timestamp', with that column named
\* 'Timestamp': a strategy that parses without such a column does not win
\* while a later one has it.
C19_FirstTimestampStrategyWins ==
    /\ csv.tried = [i \in 1..Len(csv.tried) |-> i]
    /\ (csv.status = "returned"
           /\ \E i \in DOMAIN ReadStrategies : ParsesWithTimestamp(csv.content, i)) =>
          /\ ParsesWithTimestamp(csv.content, csv.by)
          /\ \A i \in 1..(csv.by - 1) : ~ParsesWithTimestamp(csv.content, i)
          /\ TimestampName \in Range(csv.columns)

\* C20: whatever clean_dataset has written into the data directory, every
\* name it wrote contains 'clean', and load_country_data selects for every
\* country the raw file it selected before.
C20_CleanedNeverRaw ==
    /\ \A f \in files \ files0 : Contains(Lower(f), <<"c", "l", "e", "a", "n">>)
    /\ \A country \in Countries, listing \in Listings(files), listing0 \in Listings(files0) :
          load_country_data(listing, country) = load_country_data(listing0, country)
    /\ loaded.status = "loaded" => loaded.file \in files0

\* 'togo_raw.csv' was loaded for a country from a directory that by then
\* held two cleaned files whose reduced names contain the country's.
C20_Witness ==
    /\ loaded.status = "loaded"
    /\ loaded.file = TogoRawCsv
    /\ Range(loaded.listing) = files
    /\ Cardinality({f \in files \ files0 : Contains(norm(f), norm(loaded.country))}) = 2

\* The positions of the rows of t that equal no row before them, and the
\* k-th of a set of positions.
FirstOccurrences(t) ==
    {i \in DOMAIN t.rows : ~\E j \in DOMAIN t.rows : j < i /\ t.rows[j].c = t.rows[i].c}

KthPosition(positions, k) ==
    CHOOSE i \in positions : Cardinality({j \in positions : j < i}) = k - 1

\* C25: immediately after remove_duplicates, called alone or as the first
\* step of clean_pipeline, no two rows of the table are equal in every
\* column, the rows are the first occurrences of the distinct rows in their
\* order and under their labels, and the log has gained one
\* 'Removed duplicates' entry with the number of rows removed if that number
\* is not zero, and nothing otherwise.
C25_RemoveDuplicates ==
    [][(RemoveDuplicates \/ CleanPipeline) =>
          LET firsts == FirstOccurrences(Cur)
              removed == Len(Cur.rows) - Len(Cur'.rows)
          IN  /\ ~raised'
              /\ Cur'.cols = Cur.cols
              /\ \A i, j \in DOMAIN Cur'.rows : i < j => Cur'.rows[i].c # Cur'.rows[j].c
              /\ Len(Cur'.rows) = Cardinality(firsts)
              /\ \A k \in DOMAIN Cur'.rows : Cur'.rows[k] = Cur.rows[KthPosition(firsts, k)]
              /\ log' = IF removed # 0
                        THEN Append(log, Entry("Removed duplicates", "", removed))
                        ELSE log]_vars

\* remove_duplicates has removed the third row of 0, 1, 0, NaN, which equals
\* the first, and kept the others under their labels.
C25_Witness ==
    /\ nops = 1 /\ pc = "idle"
    /\ log = <<Entry("Removed duplicates", "", 1)>>
    /\ input0.cols = <<"GHI">> /\ Len(input0.rows) = 4
    /\ [i \in 1..4 |-> input0.rows[i].c["GHI"]] = <<Num(0, 1), Num(1, 1), Num(0, 1), NaN>>
    /\ [i \in DOMAIN Cur.rows |-> Cur.rows[i].lab] = <<0, 1, 3>>

\* The quantile of the values s at p in 0..1 by linear interpolation between
\* the two order statistics around the position (n - 1) * p, and the Tukey
\* fences Q1 - 1.5 * IQR and Q3 + 1.5 * IQR.
QuantileOf(s, p) ==
    LET pos == RMul(RInt(Len(s) - 1), p)
        below == pos.n \div pos.d
        rest == RSub(pos, RInt(below))
    IN  IF rest.n = 0 THEN Kth(s, below + 1)
        ELSE RAdd(Kth(s, below + 1),
                  RMul(rest, RSub(Kth(s, below + 2), Kth(s, below + 1))))

TukeyLower(s) ==
    RSub(QuantileOf(s, Rat(1, 4)),
         RMul(Rat(3, 2), RSub(QuantileOf(s, Rat(3, 4)), QuantileOf(s, Rat(1, 4)))))

TukeyUpper(s) ==
    RAdd(QuantileOf(s, Rat(3, 4)),
         RMul(Rat(3, 2), RSub(QuantileOf(s, Rat(3, 4)), QuantileOf(s, Rat(1, 4)))))

\* The rows of t whose value in column x lies outside the Tukey fences of
\* the column's non-missing values.
OutsideFences(t, x) ==
    {i \in DOMAIN t.rows :
        /\ t.rows[i].c[x].k = "num"
        /\ \/ RLt(Val(t.rows[i].c[x]), TukeyLower(NonNull(t, x)))
           \/ RLt(TukeyUpper(NonNull(t, x)), Val(t.rows[i].c[x]))}

\* The 'Capped outliers' entries for the listed columns: one for every column
\* present that has a value outside its fences, in list order.
RECURSIVE CappedEntries(_, _)
CappedEntries(t, columns) ==
    IF columns = <<>> THEN <<>>
    ELSE (IF HasCol(t, Head(columns)) /\ OutsideFences(t, Head(columns)) # {}
          THEN <<Entry("Capped outliers", Head(columns),
                       Cardinality(OutsideFences(t, Head(columns))))>>
          ELSE <<>>) \o CappedEntries(t, Tail(columns))

\* C23: a cap_outliers_iqr(columns) call that returns keeps the rows, their
\* labels and the columns; in every listed column, with the fences computed
\* from the column before the call, a value below the lower fence has become
\* the lower fence, a value above the upper fence the upper fence, and every
\* other cell is as it was, so that every value lies within the fences; the
\* columns not listed are unchanged; and the log has gained one
\* 'Capped outliers' entry with the number of changed values for every
\* listed column where that number is positive, and no other.
C23_CapNonDestructive ==
    [][\A columns \in CapColumnLists :
          (CapOutliersIqrOf(columns) /\ ~raised') =>
              /\ Cur'.cols = Cur.cols
              /\ Len(Cur'.rows) = Len(Cur.rows)
              /\ \A i \in DOMAIN Cur.rows, x \in Range(Cur.cols) :
                    LET old == Cur.rows[i].c[x]
                        new == Cur'.rows[i].c[x]
                        s == NonNull(Cur, x)
                    IN  /\ Cur'.rows[i].lab = Cur.rows[i].lab
                        /\ IF x \in Range(columns) /\ old.k = "num"
                           THEN /\ new.k = "num"
                                /\ RLe(TukeyLower(s), Val(new)) /\ RLe(Val(new), TukeyUpper(s))
                                /\ RLt(Val(old), TukeyLower(s)) => Val(new) = TukeyLower(s)
                                /\ RLt(TukeyUpper(s), Val(old)) => Val(new) = TukeyUpper(s)
                                /\ (RLe(TukeyLower(s), Val(old)) /\ RLe(Val(old), TukeyUpper(s)))
                                       => new = old
                           ELSE new = old
              /\ log' = log \o CappedEntries(Cur, columns)]_vars

\* One call has capped the 1 of 0, 0, 0, 1 to the upper fence 5/8 and logged
\* it.
C23_Witness ==
    /\ nops = 1 /\ pc = "idle"
    /\ log = <<Entry("Capped outliers", "GHI", 1)>>
    /\ Len(Cur.rows) = 4
    /\ [i \in 1..4 |-> Cur.rows[i].c["GHI"]] = <<Num(0, 1), Num(0, 1), Num(0, 1), Num(5, 8)>>

\* The labels of the rows of t.
Labels(t) == {t.rows[i].lab : i \in DOMAIN t.rows}

\* C29: the working table's rows are, by label, among the rows of the input
\* table and its columns among the input's columns. No operation adds a row
\* or a column; only remove_duplicates, handle_missing_values('drop') and
\* remove_outliers_zscore, alone or as pipeline steps, remove rows, and only
\* handle_missing_values removes columns.
C29_RowsAndColumnsSubset ==
    [][/\ Labels(Cur') \subseteq Labels(input0')
       /\ Range(Cur'.cols) \subseteq Range(input0'.cols)
       /\ ~NewCleaner =>
            /\ Labels(Cur') \subseteq Labels(Cur)
            /\ Len(Cur'.rows) <= Len(Cur.rows)
            /\ Range(Cur'.cols) \subseteq Range(Cur.cols)
            /\ Len(Cur'.rows) < Len(Cur.rows) =>
                  \/ RemoveDuplicates \/ CleanPipeline
                  \/ HandleMissingValuesWith("drop")
                  \/ RemoveOutliersZscore \/ PipelineOutliers
            /\ Range(Cur'.cols) # Range(Cur.cols) =>
                  (HandleMissingValues \/ PipelineMissing)]_vars

\* A pipeline has removed a row and a column of its input, after a call of
\* the caller's own.
C29_Witness ==
    /\ pc = "done" /\ nops = 1 /\ gen = 0
    /\ Len(Cur.rows) < Len(input0.rows)
    /\ Len(Cur.cols) < Len(input0.cols)
    /\ Len(Cur.rows) >= 1

\* Whether the non-missing values of column x of t are all equal, and whether
\* none of them has an absolute Z-score above the threshold.
ZeroDeviation(t, x) ==
    \A i, j \in DOMAIN t.rows :
        (t.rows[i].c[x].k = "num" /\ t.rows[j].c[x].k = "num")
            => Val(t.rows[i].c[x]) = Val(t.rows[j].c[x])

NoOutlierIn(t, x, threshold) ==
    \A i \in DOMAIN t.rows :
        t.rows[i].c[x].k = "num" => ~ZExceeds(NonNull(t, x), Val(t.rows[i].c[x]), threshold)

\* C26: when a column checked by remove_outliers_zscore has zero standard
\* deviation, no row is removed on account of it, in a call of its own and
\* in the outlier step of clean_pipeline, which then does not return an empty
\* table when the other columns hold no outlier.
C26_ZeroDeviationRemovesNothing ==
    [][/\ \A threshold \in ZThresholds :
             (/\ RemoveOutliersZscoreOf(<<"GHI">>, threshold)
              /\ ~raised'
              /\ HasCol(Cur, "GHI") /\ ~HasString(Cur, "GHI")
              /\ ZeroDeviation(Cur, "GHI"))
                 => Cur'.rows = Cur.rows
       /\ (/\ PipelineOutliers
           /\ ~raised'
           /\ Cur.rows # <<>>
           /\ \E x \in Range(PipelineOutlierCols) \cap Range(Cur.cols) : ZeroDeviation(Cur, x)
           /\ \A x \in Range(PipelineOutlierCols) \cap Range(Cur.cols) :
                 NoOutlierIn(Cur, x, PipelineZThreshold))
              => Cur'.rows # <<>>]_vars

\* C30: a second cap_outliers_iqr with the same columns, right after one that
\* returned, changes no value and logs nothing: no value of a capped column
\* lies outside the Tukey fences of the capped column.
C30_CapIdempotent ==
    [][\A columns \in CapColumnLists :
          (CapOutliersIqrOf(columns) /\ ~raised') =>
              /\ cap_outliers_iqr(Cur', columns).t = Cur'
              /\ cap_outliers_iqr(Cur', columns).log = <<>>
              /\ \A x \in Range(columns) \cap Range(Cur'.cols) : OutsideFences(Cur', x) = {}]_vars

\* The rows of t whose value in column x is present and has an absolute
\* Z-score, against the column's non-missing values, above the threshold.
OutlierRows(t, x, threshold) ==
    {i \in DOMAIN t.rows :
        /\ t.rows[i].c[x].k = "num"
        /\ ZExceeds(NonNull(t, x), Val(t.rows[i].c[x]), threshold)}

\* C24: what detect_outliers_zscore(columns, t) returns has an entry for a
\* column if and only if the column is listed and present and at least one
\* of its non-missing values has an absolute Z-score strictly greater than
\* t; the entry's count is the number of such values, its percentage 100
\* times the count over the number of all rows, and its indices the labels
\* of the rows of exactly those values.
C24_DetectOutliersZscore ==
    outliers.status = "ok" =>
        LET entries == outliers.entries
            t == outliers.threshold
        IN  /\ \A x \in Range(outliers.columns) \cap Range(pdf.cols) :
                  (\E k \in DOMAIN entries : entries[k].column = x)
                      <=> OutlierRows(pdf, x, t) # {}
            /\ \A k, l \in DOMAIN entries : entries[k].column = entries[l].column => k = l
            /\ \A k \in DOMAIN entries :
                  LET x == entries[k].column
                  IN  /\ x \in Range(outliers.columns) \cap Range(pdf.cols)
                      /\ entries[k].count = Cardinality(OutlierRows(pdf, x, t))
                      /\ entries[k].percentage
                            = Rat(100 * Cardinality(OutlierRows(pdf, x, t)), Len(pdf.rows))
                      /\ Range(entries[k].indices)
                            = {pdf.rows[i].lab : i \in OutlierRows(pdf, x, t)}
                      /\ Len(entries[k].indices) = entries[k].count

\* Of 0, 0, 1 and a missing value, the 1 at label 2 was reported as the one
\* outlier, 25 percent of the four rows.
C24_Witness ==
    /\ outliers.status = "ok"
    /\ Len(pdf.rows) = 4
    /\ pdf.rows[4].c["GHI"] = NaN
    /\ Len(outliers.entries) = 1
    /\ outliers.entries[1].count = 1
    /\ outliers.entries[1].indices = <<2>>
    /\ outliers.entries[1].percentage = RInt(25)

\* C27: the rows remove_outliers_zscore([c], t) removes are the rows
\* detect_outliers_zscore([c], t) reports for the same table, none when it
\* reports no entry; rows with a missing value in c stay.
C27_CleanerProfilerAgree ==
    [][\A threshold \in ZThresholds :
          (RemoveOutliersZscoreOf(<<"GHI">>, threshold) /\ ~raised') =>
              LET reported == detect_outliers_zscore(Cur, <<"GHI">>, threshold).entries
                  indices == IF reported = <<>> THEN {} ELSE Range(reported[1].indices)
              IN  /\ Labels(Cur) \ Labels(Cur') = indices
                  /\ \A i \in DOMAIN Cur.rows :
                        (HasCol(Cur, "GHI") /\ Cur.rows[i].c["GHI"].k = "nan")
                            => Cur.rows[i].lab \in Labels(Cur')]_vars

\* C22: of two cleaners constructed from one table and run with one flag,
\* each starts from the table and an empty log, no step of one changes the
\* table or the log of the other, and when both pipelines have ended, in
\* whatever order their steps were taken, the two tables are equal and the
\* two logs are equal.
C22_IndependentCleaners ==
    [][/\ \A i \in Instances :
             /\ PairConstructOf(i) => (PairCur(i)' = pair.input /\ PairLog(i)' = <<>>)
             /\ PairStepOf(i) =>
                   /\ PairCur(Other(i))' = PairCur(Other(i))
                   /\ PairLog(Other(i))' = PairLog(Other(i))
       /\ (\A i \in Instances : pair'.inst[i].pc \in {"done", "failed"}) =>
             /\ pair'.inst[1].pc = pair'.inst[2].pc
             /\ PairCur(1)' = PairCur(2)'
             /\ PairLog(1)' = PairLog(2)']_vars

\* Both pipelines have returned, with outlier removal, after steps of one
\* were taken in the middle of the other's; they changed the table and
\* logged it.
C22_Witness ==
    /\ pair.status = "run"
    /\ pair.mixed /\ pair.flag
    /\ \A i \in Instances : pair.inst[i].pc = "done"
    /\ PairCur(1) # pair.input
    /\ PairLog(1) # <<>>
    /\ Len(PairCur(1).rows) >= 1

\* Whether the cleaned file of a country was found and read with at least
\* one row, and the rows it contributes, labelled with the country.
CountryLoaded(names, kind, country) ==
    /\ find_clean_file(names, country) # NotFound
    /\ kind[find_clean_file(names, country)].ok
    /\ kind[find_clean_file(names, country)].rows >= 1

RowsOfCountry(names, kind, country) ==
    [k \in 1..kind[find_clean_file(names, country)].rows |->
        [Country |-> country, file |-> find_clean_file(names, country), row |-> k]]

RECURSIVE RowsInRequestOrder(_, _, _)
RowsInRequestOrder(names, kind, countries) ==
    IF countries = <<>> THEN <<>>
    ELSE (IF CountryLoaded(names, kind, Head(countries))
          THEN RowsOfCountry(names, kind, Head(countries)) ELSE <<>>)
         \o RowsInRequestOrder(names, kind, Tail(countries))

\* C21: load_countries(countries) returns a table whatever country fails to
\* load: the rows, in request order and labelled with their Country, of
\* exactly the requested countries that loaded with at least one row, so
\* that it is empty if and only if none did and a failed country leaves the
\* rows of the others as they are.
C21_SkipAndContinue ==
    app.status # "none" =>
        /\ app.status = "ok"
        /\ app.rows = RowsInRequestOrder(app.dir, app.kind, app.countries)
        /\ app.rows = <<>> <=>
              ~\E k \in DOMAIN app.countries :
                  CountryLoaded(app.dir, app.kind, app.countries[k])

\* C28: the file clean_dataset(country) has written, '<slug>_clean.csv' with
\* the script's slug, is the file _find_clean_file(country) returns for the
\* same name.
C28_DashboardFindsCleanedFile ==
    [][\A country \in AppCountries :
          (CleanDatasetOf(country) /\ CleanFileName(country) \in files')
              => find_clean_file(files', country) = CleanFileName(country)]_vars

=============================================================================
